---- MODULE Spec2Model ----
(***************************************************************************)
(* Schema cache and loader of the Shopify MCP server:                      *)
(* ShopifySchema (src/src/tools/shopify-schema.ts) together with the       *)
(* introspection helper introspectEndpoint (helpers/introspection).        *)
(*                                                                         *)
(* State: the static memory cache (store domain -> document), the fields   *)
(* schema / rawSchema of each ShopifySchema instance, the cache file       *)
(* shopify-schema-cache.json, the configuration (host name and access      *)
(* token of the process), the loadSchema() invocations suspended at        *)
(* `await introspectEndpoint(...)`, and a record of the operation that     *)
(* completed last (its result and the I/O it performed).                   *)
(*                                                                         *)
(* The lookups of ShopifySchema (getTypeFields, fieldExists, getTypes) and *)
(* the helpers of the schema explorer (checkField, levenshteinDistance,    *)
(* the check_field action of explore_schema) are specified separately, in  *)
(* SpecLookup and SpecDistance, over documents of named types and fields;  *)
(* the stand-alone SchemaCache (src/src/tools/schema-cache.ts) in          *)
(* SpecCache.                                                              *)
(***************************************************************************)
EXTENDS Naturals, Sequences, FiniteSets, TLC

\* ------------------------------------------------------------------ bounds
MaxCalls == 2     \* loadSchema() invocations that may be suspended at once
MaxStrLen == 3    \* length of the strings levenshteinDistance is tried on

\* The ShopifySchema instances of the process: the singleton of getInstance()
\* and one made by `new ShopifySchema(shopify)`; both are given the server's
\* one shopify object
Inst == {"singleton", "other"}
NoInst == "-"

\* ------------------------------------------------------------------ data
Domains == {"A", "B"}          \* configured store host names
NoHost == "nohost"             \* shopify.config.hostName is undefined/empty
Docs == {"dA", "dB"}           \* complete introspection documents
NoDoc == "-"

\* Parsed JSON values, as far as the loader tells them apart:
\*   schema    an object with a __schema that buildClientSchema accepts
\*   badschema an object with a __schema that buildClientSchema rejects
\*   noschema  null, or an object without __schema
NoVal == [kind |-> "none", doc |-> NoDoc]
SchemaVal(d) == [kind |-> "schema", doc |-> d]
BadSchemaVal == [kind |-> "badschema", doc |-> NoDoc]
NoSchemaVal == [kind |-> "noschema", doc |-> NoDoc]
Values == {SchemaVal(d) : d \in Docs} \cup {BadSchemaVal, NoSchemaVal}

\* Texts (file contents, strings returned by helpers):
\*   json    JSON.stringify of a value
\*   sdl     GraphQL SDL printed from a schema
\*   garbage anything JSON.parse rejects and no helper produces
NoFile == [fmt |-> "absent", kind |-> "none", doc |-> NoDoc]
Garbage == [fmt |-> "garbage", kind |-> "none", doc |-> NoDoc]
FileTexts == {[fmt |-> "json", kind |-> v.kind, doc |-> v.doc] : v \in Values}
                \cup {Garbage}

\* JSON.stringify(value, null, 2)
JSON_stringify(v) == [fmt |-> "json", kind |-> v.kind, doc |-> v.doc]

\* JSON.parse(text): the value, or a SyntaxError for a text that is not JSON
JSON_parse(t) ==
  IF t.fmt = "json"
    THEN [ok |-> TRUE, val |-> [kind |-> t.kind, doc |-> t.doc]]
    ELSE [ok |-> FALSE, val |-> NoVal]

\* buildClientSchema without its validation of the introspection result
buildClientSchema_AcceptsAny(v) ==
  [ok |-> TRUE, schema |-> IF v.kind = "schema" THEN v.doc ELSE "dA"]

\* buildClientSchema(value): the schema (identified by the document it was
\* built from), or an error for a value that is no valid introspection result
buildClientSchema(v) ==
  IF v.kind = "schema"
    THEN [ok |-> TRUE, schema |-> v.doc]
    ELSE [ok |-> FALSE, schema |-> NoDoc]

\* printSchema(schema): the SDL text of a schema
printSchema(s) == [fmt |-> "sdl", kind |-> "schema", doc |-> s]

\* What the network answers to the introspection request:
\*   transport  fetch() rejects, or response.json() rejects
\*   status     a response with ok = false
\*   nodata     a JSON body whose data is no introspection result
\*   doc        a JSON body whose data is the document named
Responses ==
  {[kind |-> k, doc |-> NoDoc] : k \in {"transport", "status", "nodata"}}
    \cup {[kind |-> "doc", doc |-> d] : d \in Docs}

\* Results of operations
NoResult == [status |-> "none", err |-> "-", val |-> NoVal]
Ok(v) == [status |-> "ok", err |-> "-", val |-> v]
Err(e) == [status |-> "error", err |-> e, val |-> NoVal]

\* responseJson.data of a response that has a JSON body
ResponseData(resp) ==
  IF resp.kind = "doc" THEN SchemaVal(resp.doc) ELSE NoSchemaVal

\* introspectEndpoint without the `if (!response.ok)` test of lines 163-165:
\* the body of the error response goes to buildClientSchema, which rejects it
introspectEndpoint_NoStatusCheck(resp) ==
  LET b == buildClientSchema(ResponseData(resp))
  IN CASE resp.kind = "transport" -> [ok |-> FALSE, err |-> "FetchTransport", text |-> NoFile]
       [] ~b.ok -> [ok |-> FALSE, err |-> "BuildSchema", text |-> NoFile]
       [] OTHER -> [ok |-> TRUE, err |-> "-", text |-> printSchema(b.schema)]

\* introspectEndpoint(endpoint, headers), from the response on: the SDL text
\* of the schema built from the body, or the error it rethrows
introspectEndpoint(resp) ==
  LET b == buildClientSchema(ResponseData(resp))
  IN CASE resp.kind = "transport" -> [ok |-> FALSE, err |-> "FetchTransport", text |-> NoFile]
       [] resp.kind = "status" -> [ok |-> FALSE, err |-> "FetchStatus", text |-> NoFile]
       [] ~b.ok -> [ok |-> FALSE, err |-> "BuildSchema", text |-> NoFile]
       [] OTHER -> [ok |-> TRUE, err |-> "-", text |-> printSchema(b.schema)]

\* ------------------------------------------------------------------ state
VARIABLES
  memCache,     \* ShopifySchema.schemaCache: store domain -> value or NoVal
  schema,       \* this.schema of each instance: document it was built from
  rawSchema,    \* this.rawSchema of each instance: value or NoVal
  file,         \* content of shopify-schema-cache.json, or NoFile
  hostName,     \* this.shopify.config.hostName (the server's shopify object)
  accessToken,  \* process.env.SHOPIFY_API_ACCESS_TOKEN is set
  calls,        \* suspended loadSchema() invocations
  last,         \* the step taken last: what ran, what it returned, its I/O
  lookup,       \* the lookup or helper call made last: arguments and result
  cache,        \* SchemaCache: this.cache of the instance, a value or NoVal
  cacheFile     \* SchemaCache: content of .cache/shopify-schema-cache.json

vars == <<memCache, schema, rawSchema, file, hostName, accessToken, calls, last, lookup, cache, cacheFile>>

\* The SchemaCache of schema-cache.ts is used by none of the operations of
\* ShopifySchema: it holds nothing and has no file
NoSchemaCache == cache = NoVal /\ cacheFile = NoFile

\* A suspended loadSchema() invocation: the operation that made it, its
\* instance and argument, and whether it had tried the cache file (it then
\* found it invalid, and read it and tried to remove it once)
Calls == [op : {"loadSchema", "getTypes"}, inst : Inst, force : BOOLEAN,
          reads : {0, 1}]
NoCalls == [k \in Calls |-> 0]
Pending == {k \in Calls : calls[k] > 0}

NoResponse == [kind |-> "none", doc |-> NoDoc]

\* The record of a step.
\*   op       the operation called: loadSchema, getTypes, clearCache, restart
\*   phase    sync: the call ran to its end without suspending; await: it
\*            issued the introspection request and is suspended; resumed: the
\*            network answered and the call ran to its end
\*   path     how loadSchema went: nohost, memory, file, notoken, fetch; held
\*            for a lookup answered from the schema the instance holds
\*   result   what the operation returned or threw (none while suspended)
\*   fetches, reads, writes, unlinks   network requests issued, reads of the
\*            cache file, writes of it, removals of it, by the call so far
\*   loads    loadSchema() invocations the operation made
\*   preMem, preFile   the memory-cache entry of the call's store domain and
\*            the cache file as they were before the step
\*   response what the network answered (resumed only)
\*   ioFailed a write or a removal of the cache file failed and was logged
\*   writeOk  the cache file could be written when the step ran
Step(op, phase, inst, force, path, result, fetches, reads, writes, unlinks, loads, preMem, preFile, response, ioFailed, writeOk) ==
  [op |-> op, phase |-> phase, inst |-> inst, force |-> force, path |-> path,
   result |-> result, fetches |-> fetches, reads |-> reads, writes |-> writes,
   unlinks |-> unlinks, loads |-> loads, preMem |-> preMem, preFile |-> preFile,
   response |-> response, ioFailed |-> ioFailed, writeOk |-> writeOk]

Configs == Domains \cup {NoHost}

\* No lookup has been made
NoLookup == [op |-> "none", phase |-> "done"]

Init ==
  /\ memCache = [d \in Domains |-> NoVal]
  /\ schema = [i \in Inst |-> NoDoc]
  /\ rawSchema = [i \in Inst |-> NoVal]
  /\ file \in FileTexts \cup {NoFile}
  /\ hostName \in Configs
  /\ accessToken \in BOOLEAN
  /\ calls = NoCalls
  /\ last = Step("start", "sync", NoInst, FALSE, "-", NoResult, 0, 0, 0, 0, 0,
                 NoVal, file, NoResponse, FALSE, TRUE)
  /\ lookup = NoLookup
  /\ NoSchemaCache

\* ------------------------------------------------------------------ loadSchema
\* Line 43 with the forceFetch test dropped
MemoryHit_IgnoresForce(force, mem) == mem # NoVal

\* Line 43 with the forceFetch test inverted
MemoryHit_WhenForced(force, mem) == force /\ mem # NoVal

\* Line 43 with the memory cache never consulted
MemoryHit_Never(force, mem) == FALSE

\* Line 43: the memory cache answers the call
MemoryHit(force, mem) == ~force /\ mem # NoVal

\* Line 53 with the forceFetch test inverted
UseFileCache_WhenForced(force, f) == force /\ f # NoFile

\* Line 53: the file cache is consulted
UseFileCache(force, f) == ~force /\ f # NoFile

\* Lines 56-63 with every cache file taken as corrupt
ReadFileCache_AlwaysCorrupt(t) == [ok |-> FALSE, val |-> NoVal, schema |-> NoDoc]

\* Lines 56-63: read and parse the cache file, check the __schema container,
\* build the schema; any throw lands in the catch of line 67
ReadFileCache(t) ==
  LET p == JSON_parse(t)
      b == buildClientSchema(p.val)
  IN IF p.ok /\ p.val.kind # "noschema" /\ b.ok
       THEN [ok |-> TRUE, val |-> p.val, schema |-> b.schema]
       ELSE [ok |-> FALSE, val |-> NoVal, schema |-> NoDoc]

\* Lines 69-73 and 122-128: fs.unlinkSync in a try/catch that only logs
Unlink(f, unlinkOk) == IF unlinkOk THEN NoFile ELSE f

\* Lines 101-106: fs.writeFileSync in a try/catch that only logs
WriteFile(f, v, writeOk) == IF writeOk THEN JSON_stringify(v) ELSE f

\* Lines 45-47 left out: no schema is built on a memory hit
SchemaAfterMemoryHit_NotBuilt(cur, mem) == cur

\* Lines 45-47: the instance builds a schema only if it holds none
SchemaAfterMemoryHit(cur, mem) ==
  IF cur = NoDoc THEN buildClientSchema(mem).schema ELSE cur

\* Lines 82-85 with the check of the access token left out
TokenMissing_Unchecked(token) == FALSE

\* Lines 82-85: the access token is required before the request is made
TokenMissing(token) == ~token

\* Lines 38-90 of loadSchema(forceFetch) on instance i, up to the first await:
\* either the call completes (done), or it has issued the introspection
\* request and is suspended. unlinkOk: whether a removal of the file succeeds.
LoadSync(i, force, unlinkOk) ==
  LET storeDomain == hostName
      mem == IF storeDomain = NoHost THEN NoVal ELSE memCache[storeDomain]
      tryFile == UseFileCache(force, file)
      rd == ReadFileCache(file)
      file1 == IF tryFile THEN Unlink(file, unlinkOk) ELSE file
      io == IF tryFile THEN 1 ELSE 0
      base == [done |-> TRUE, path |-> "-", result |-> NoResult,
               schemaI |-> schema[i], rawI |-> rawSchema[i], memD |-> mem,
               file |-> file, fetches |-> 0, reads |-> 0, unlinks |-> 0,
               ioFailed |-> FALSE]
  IN IF storeDomain = NoHost
       THEN [base EXCEPT !.path = "nohost", !.result = Err("ConfigHost")]
     ELSE IF MemoryHit(force, mem)
       THEN [base EXCEPT !.path = "memory", !.result = Ok(mem),
                         !.schemaI = SchemaAfterMemoryHit(schema[i], mem),
                         !.rawI = mem]
     ELSE IF tryFile /\ rd.ok
       THEN [base EXCEPT !.path = "file", !.result = Ok(rd.val),
                         !.schemaI = rd.schema, !.rawI = rd.val,
                         !.memD = rd.val, !.reads = 1]
     ELSE IF TokenMissing(accessToken)
       THEN [base EXCEPT !.path = "notoken", !.result = Err("ConfigToken"),
                         !.file = file1, !.reads = io, !.unlinks = io,
                         !.ioFailed = (tryFile /\ ~unlinkOk)]
     ELSE [base EXCEPT !.done = FALSE, !.path = "fetch", !.file = file1,
                       !.fetches = 1, !.reads = io, !.unlinks = io,
                       !.ioFailed = (tryFile /\ ~unlinkOk)]

\* Lines 88-114 of loadSchema from the answer of the network on, for the
\* suspended call k. writeOk: whether writing the cache file succeeds.
LoadAsync(k, resp, writeOk) ==
  LET ie == introspectEndpoint(resp)
      p == JSON_parse(ie.text)
      b == buildClientSchema(p.val)
      base == [result |-> NoResult, schemaI |-> schema[k.inst],
               rawI |-> rawSchema[k.inst], memD |-> memCache[hostName],
               file |-> file, writes |-> 0, ioFailed |-> FALSE]
  IN IF ~ie.ok THEN [base EXCEPT !.result = Err(ie.err)]
     ELSE IF ~p.ok THEN [base EXCEPT !.result = Err("SyntaxError")]
     ELSE IF p.val.kind = "noschema"
       THEN [base EXCEPT !.result = Err("InvalidSchemaData")]
     ELSE IF ~b.ok THEN [base EXCEPT !.result = Err("BuildSchema")]
     ELSE [base EXCEPT !.result = Ok(p.val), !.schemaI = b.schema,
                       !.rawI = p.val, !.memD = p.val,
                       !.file = WriteFile(file, p.val, writeOk),
                       !.writes = 1, !.ioFailed = ~writeOk]

\* getTypes(), lines 182-187: the type names of the schema the instance holds
TypesOf(s) == IF s = NoDoc THEN Err("SchemaNotLoaded") ELSE Ok(SchemaVal(s))

\* What the operation op returns once its loadSchema() call has returned r
\* and the instance holds the schema s
OpResult(op, r, s) ==
  IF op = "getTypes" /\ r.status = "ok" THEN TypesOf(s) ELSE r

RECURSIVE Count(_)
Count(S) == IF S = {} THEN 0
            ELSE LET k == CHOOSE x \in S : TRUE IN calls[k] + Count(S \ {k})
\* The number of suspended invocations
NumPending == Count(Pending)

\* Whether a removal of the cache file succeeds (it is tried only on a file
\* that exists), and whether a write of it succeeds (it is tried only once
\* the network has answered with a document)
UnlinkOutcomes == IF file = NoFile THEN {TRUE} ELSE BOOLEAN
WriteOutcomes(resp) == IF resp.kind = "doc" THEN BOOLEAN ELSE {TRUE}

\* An operation op on instance i calls loadSchema(force)
StartLoad(op, i, force, unlinkOk) ==
  LET r == LoadSync(i, force, unlinkOk)
      d == hostName
      mem == IF d = NoHost THEN NoVal ELSE memCache[d]
      k == [op |-> op, inst |-> i, force |-> force, reads |-> r.reads]
  IN /\ r.done \/ NumPending < MaxCalls
     /\ schema' = [schema EXCEPT ![i] = r.schemaI]
     /\ rawSchema' = [rawSchema EXCEPT ![i] = r.rawI]
     /\ memCache' = IF d = NoHost THEN memCache ELSE [memCache EXCEPT ![d] = r.memD]
     /\ file' = r.file
     /\ calls' = IF r.done THEN calls ELSE [calls EXCEPT ![k] = @ + 1]
     /\ last' = Step(op, IF r.done THEN "sync" ELSE "await", i, force, r.path,
                     IF r.done THEN OpResult(op, r.result, r.schemaI) ELSE NoResult,
                     r.fetches, r.reads, 0, r.unlinks, 1, mem, file,
                     NoResponse, r.ioFailed, TRUE)
     /\ UNCHANGED <<hostName, accessToken, lookup, cache, cacheFile>>

\* loadSchema(forceFetch) called on instance i
LoadSchema(i, force) ==
  \E unlinkOk \in UnlinkOutcomes : StartLoad("loadSchema", i, force, unlinkOk)

\* The network answers the request of a suspended call k; the call resumes
\* after `await introspectEndpoint` and runs to its end. The storeDomain it
\* read at line 38 is the host name still configured: the configuration is
\* read when the process starts.
ResumeLoad(k, resp, writeOk) ==
  LET r == LoadAsync(k, resp, writeOk)
  IN /\ calls[k] > 0
     /\ schema' = [schema EXCEPT ![k.inst] = r.schemaI]
     /\ rawSchema' = [rawSchema EXCEPT ![k.inst] = r.rawI]
     /\ memCache' = [memCache EXCEPT ![hostName] = r.memD]
     /\ file' = r.file
     /\ calls' = [calls EXCEPT ![k] = @ - 1]
     /\ last' = Step(k.op, "resumed", k.inst, k.force, "fetch",
                     OpResult(k.op, r.result, r.schemaI),
                     1, k.reads, r.writes, k.reads, 1,
                     memCache[hostName], file, resp, r.ioFailed, writeOk)
     /\ UNCHANGED <<hostName, accessToken, lookup, cache, cacheFile>>

FetchComplete(k, resp) ==
  \E writeOk \in WriteOutcomes(resp) : ResumeLoad(k, resp, writeOk)

\* ------------------------------------------------------------------ clearCache
\* Line 120 left out: the memory cache is kept
ClearedMemCache_Kept == memCache

\* Line 120: ShopifySchema.schemaCache.clear()
ClearedMemCache == [d \in Domains |-> NoVal]

\* Line 122: fs.existsSync(cacheFilePath) guards the removal
CacheFileExists_Always(f) == TRUE

CacheFileExists(f) == f # NoFile

\* static clearCache(), lines 118-130
ClearFiles(unlinkOk) ==
  /\ memCache' = ClearedMemCache
  /\ file' = IF CacheFileExists(file) THEN Unlink(file, unlinkOk) ELSE file
  /\ last' = Step("clearCache", "sync", NoInst, FALSE, "-", Ok(NoVal), 0, 0, 0,
                  IF CacheFileExists(file) THEN 1 ELSE 0, 0,
                  IF hostName = NoHost THEN NoVal ELSE memCache[hostName],
                  file, NoResponse, CacheFileExists(file) /\ ~unlinkOk, TRUE)
  /\ UNCHANGED <<schema, rawSchema, hostName, accessToken, calls, lookup, cache, cacheFile>>

ClearCache == \E unlinkOk \in UnlinkOutcomes : ClearFiles(unlinkOk)

\* ------------------------------------------------------------------ lookups
\* Line 179: getTypes() loads the schema only if the instance holds no raw one
NeedsLoad(raw) == raw = NoVal

\* getTypes() on instance i, lines 178-188
GetTypes(i) ==
  IF NeedsLoad(rawSchema[i])
    THEN \E unlinkOk \in UnlinkOutcomes : StartLoad("getTypes", i, FALSE, unlinkOk)
    ELSE /\ last' = Step("getTypes", "sync", i, FALSE, "held", TypesOf(schema[i]),
                         0, 0, 0, 0, 0,
                         IF hostName = NoHost THEN NoVal ELSE memCache[hostName],
                         file, NoResponse, FALSE, TRUE)
         /\ UNCHANGED <<memCache, schema, rawSchema, file, hostName, accessToken, calls, lookup, cache, cacheFile>>

\* ------------------------------------------------------------------ process
\* The process ends and a new one starts in the same working directory: the
\* static cache and the instances are new (lines 15-25), the file remains,
\* the configuration is read again.  The step records the host name the
\* process that ended was configured with (preHost) and the document its
\* memory cache held for it (preMem).
Restart ==
  /\ memCache' = [d \in Domains |-> NoVal]
  /\ schema' = [i \in Inst |-> NoDoc]
  /\ rawSchema' = [i \in Inst |-> NoVal]
  /\ hostName' \in Configs
  /\ accessToken' \in BOOLEAN
  /\ calls' = NoCalls
  /\ last' = Step("restart", "sync", NoInst, FALSE, "-", NoResult, 0, 0, 0, 0, 0,
                  IF hostName = NoHost THEN NoVal ELSE memCache[hostName],
                  file, NoResponse, FALSE, TRUE) @@ [preHost |-> hostName]
  /\ UNCHANGED <<file, lookup, cache, cacheFile>>

Next ==
  \/ \E i \in Inst, force \in BOOLEAN : LoadSchema(i, force)
  \/ \E k \in Calls, resp \in Responses : FetchComplete(k, resp)
  \/ ClearCache
  \/ \E i \in Inst : GetTypes(i)
  \/ Restart

Spec == Init /\ [][Next]_vars

TypeOK ==
  /\ memCache \in [Domains -> {SchemaVal(d) : d \in Docs} \cup {NoVal}]
  /\ schema \in [Inst -> Docs \cup {NoDoc}]
  /\ rawSchema \in [Inst -> {SchemaVal(d) : d \in Docs} \cup {NoVal}]
  /\ file \in FileTexts \cup {NoFile}
  /\ hostName \in Configs
  /\ accessToken \in BOOLEAN

\* ------------------------------------------------------------------ strings
\* A string is the sequence of its characters.
UpperCase == <<"A", "B", "C", "D", "E", "F", "G", "H", "I", "J", "K", "L", "M", "N", "O", "P", "Q", "R", "S", "T", "U", "V", "W", "X", "Y", "Z">>
LowerCase == <<"a", "b", "c", "d", "e", "f", "g", "h", "i", "j", "k", "l", "m", "n", "o", "p", "q", "r", "s", "t", "u", "v", "w", "x", "y", "z">>

\* The lower-case form of one character
LowerChar(c) ==
  IF \E n \in DOMAIN UpperCase : UpperCase[n] = c
    THEN LowerCase[CHOOSE n \in DOMAIN UpperCase : UpperCase[n] = c]
    ELSE c

\* s.toLowerCase()
toLowerCase(s) == [n \in 1..Len(s) |-> LowerChar(s[n])]

\* The positions (from 0) at which sub occurs in s
Occurrences(s, sub) ==
  {n \in 0..Len(s) : n + Len(sub) <= Len(s) /\ SubSeq(s, n + 1, n + Len(sub)) = sub}

\* s.includes(sub)
includes(s, sub) == Occurrences(s, sub) # {}

\* s.startsWith(prefix)
startsWith(s, prefix) == 0 \in Occurrences(s, prefix)

\* s.replace(sub, by) with a string pattern: the first occurrence is replaced
replace(s, sub, by) ==
  IF ~includes(s, sub) THEN s
  ELSE LET n == CHOOSE x \in Occurrences(s, sub) : \A y \in Occurrences(s, sub) : x <= y
       IN SubSeq(s, 1, n) \o by \o SubSeq(s, n + Len(sub) + 1, Len(s))

\* s.substring(0, n)
substring0(s, n) == IF Len(s) <= n THEN s ELSE SubSeq(s, 1, n)

\* Math.min of three numbers
Min3(x, y, z) ==
  IF x <= y /\ x <= z THEN x ELSE IF y <= z THEN y ELSE z

\* ------------------------------------------------------------------ levenshteinDistance
\* Line 575 with the characters compared regardless of case
Cost_IgnoringCase(a, b, i, j) == IF LowerChar(a[j]) = LowerChar(b[i]) THEN 0 ELSE 1

\* Line 575: the cost of substituting a.charAt(j - 1) for b.charAt(i - 1)
Cost(a, b, i, j) == IF a[j] = b[i] THEN 0 ELSE 1

\* Lines 574-581: row i of the matrix, filled from column 1 on; above is row
\* i - 1 and row holds the cells 0..Len(row)-1 of row i (a sequence holds
\* cell j at index j + 1)
RECURSIVE FillRow(_, _, _, _, _)
FillRow(a, b, i, above, row) ==
  IF Len(row) > Len(a) THEN row
  ELSE LET j == Len(row)
           cell == Min3(above[j + 1] + 1, row[j] + 1, above[j] + Cost(a, b, i, j))
       IN FillRow(a, b, i, above, Append(row, cell))

\* Lines 565-582: the matrix, from row 0 = <<0, 1, .., a.length>> row by row;
\* every row i starts with matrix[i] = [i]
RECURSIVE FillMatrix(_, _, _)
FillMatrix(a, b, matrix) ==
  IF Len(matrix) > Len(b) THEN matrix
  ELSE LET i == Len(matrix)
       IN FillMatrix(a, b, Append(matrix, FillRow(a, b, i, matrix[i], <<i>>)))

\* levenshteinDistance(a, b), lines 561-585: matrix[b.length][a.length]
levenshteinDistance(a, b) ==
  FillMatrix(a, b, <<[j \in 1..(Len(a) + 1) |-> j - 1]>>)[Len(b) + 1][Len(a) + 1]

\* The distance checkField takes between a field name and the name looked
\* up, line 521: both are put in lower case first
NameDistance(name, fieldName) ==
  levenshteinDistance(toLowerCase(name), toLowerCase(fieldName))

\* The strings the distance is tried on: all of at most MaxStrLen characters
\* over an alphabet with a letter in both cases, and the named examples
Alphabet == {"a", "A", "b"}
RECURSIVE StringsOfLen(_)
StringsOfLen(n) ==
  IF n = 0 THEN {<<>>}
  ELSE {Append(s, c) : s \in StringsOfLen(n - 1), c \in Alphabet}
Strings == UNION {StringsOfLen(n) : n \in 0..MaxStrLen}
kitten == <<"k", "i", "t", "t", "e", "n">>
sitting == <<"s", "i", "t", "t", "i", "n", "g">>
Examples == {<<kitten, sitting>>, <<<<"a">>, <<"a">>>>, <<<<>>, <<"a", "b", "c">>>>, <<<<"T", "i">>, <<"t", "i">>>>}
DistanceInputs == (Strings \X Strings) \cup Examples

\* No loader state: a process that has loaded nothing and has no cache file
LoaderIdle ==
  /\ memCache = [d \in Domains |-> NoVal]
  /\ schema = [i \in Inst |-> NoDoc]
  /\ rawSchema = [i \in Inst |-> NoVal]
  /\ file = NoFile
  /\ hostName = NoHost
  /\ accessToken = FALSE
  /\ calls = NoCalls
  /\ last = Step("start", "sync", NoInst, FALSE, "-", NoResult, 0, 0, 0, 0, 0,
                 NoVal, NoFile, NoResponse, FALSE, TRUE)

loaderVars == <<memCache, schema, rawSchema, file, hostName, accessToken, calls, last>>

\* The arguments of a call that has not been made yet
DistanceInput(a, b) == [op |-> "input", phase |-> "done", a |-> a, b |-> b]

InitDistance ==
  /\ LoaderIdle /\ NoSchemaCache
  /\ lookup \in {DistanceInput(p[1], p[2]) : p \in DistanceInputs}

\* The call levenshteinDistance(a, b) on the arguments drawn
LevenshteinDistance ==
  /\ lookup.op = "input"
  /\ lookup' = [op |-> "levenshteinDistance", phase |-> "done",
                a |-> lookup.a, b |-> lookup.b,
                result |-> levenshteinDistance(lookup.a, lookup.b)]
  /\ UNCHANGED <<loaderVars, cache, cacheFile>>

\* The call of line 521 for a field name a and the name b looked up
CompareNames ==
  /\ lookup.op = "input"
  /\ lookup' = [op |-> "compareNames", phase |-> "done",
                a |-> lookup.a, b |-> lookup.b,
                result |-> NameDistance(lookup.a, lookup.b)]
  /\ UNCHANGED <<loaderVars, cache, cacheFile>>

NextDistance == LevenshteinDistance \/ CompareNames

SpecDistance == InitDistance /\ [][NextDistance]_vars

\* ------------------------------------------------------------------ documents
\* Type names and field names, as strings
T_Product == <<"P", "r", "o", "d", "u", "c", "t">>
T_Order == <<"O", "r", "d", "e", "r">>
T_Node == <<"N", "o", "d", "e">>
T_Status == <<"S", "t", "a", "t", "u", "s">>
T_Money == <<"M", "o", "n", "e", "y">>
T_Owner == <<"O", "w", "n", "e", "r">>
T_Filter == <<"F", "i", "l", "t", "e", "r">>
T_MetaType == <<"_", "_", "T", "y", "p", "e">>
T_Shop == <<"S", "h", "o", "p">>
T_Flags == <<"F", "l", "a", "g", "s">>
T_MetaSchema == <<"_", "_", "S", "c", "h", "e", "m", "a">>
T_NoSuchType == <<"N", "o", "S", "u", "c", "h", "T", "y", "p", "e">>
F_title == <<"t", "i", "t", "l", "e">>
F_vendor == <<"v", "e", "n", "d", "o", "r">>
F_id == <<"i", "d">>
F_cancelledAt == <<"c", "a", "n", "c", "e", "l", "l", "e", "d", "A", "t">>
F_status == <<"s", "t", "a", "t", "u", "s">>
F_total == <<"t", "o", "t", "a", "l">>
F_query == <<"q", "u", "e", "r", "y">>
F_name == <<"n", "a", "m", "e">>
F_colour == <<"c", "o", "l", "o", "u", "r">>
F_a == <<"a">>
F_b == <<"b">>
F_c == <<"c">>
F_d == <<"d">>
F_e == <<"e">>
F_f == <<"f">>
F_Title == <<"T", "i", "t", "l", "e">>
F_canceledAt == <<"c", "a", "n", "c", "e", "l", "e", "d", "A", "t">>
F_color == <<"c", "o", "l", "o", "r">>
F_tite == <<"t", "i", "t", "e">>
F_x == <<"x">>

\* A type of a schema: its name, its kind and the names of the fields it
\* declares, in the order of declaration
Type(name, kind, fields) == [name |-> name, kind |-> kind, fields |-> fields]

\* schema.getTypeMap() of the schema built from a document, as the sequence
\* of its entries in key order: the types of the document, those of the
\* introspection system (__Type, __Schema, ...) included.
\*   dA  Product and Order objects, an interface, an enum, a scalar, a union
\*       and an input object
\*   dB  a Shop object and an object with six one-letter fields
getTypeMap(s) ==
  IF s = "dA"
    THEN << Type(T_Product, "OBJECT", <<F_title, F_vendor>>),
            Type(T_Order, "OBJECT", <<F_id, F_cancelledAt, F_status, F_total>>),
            Type(T_Node, "INTERFACE", <<F_id>>),
            Type(T_Status, "ENUM", <<>>),
            Type(T_MetaType, "OBJECT", <<F_name>>),
            Type(T_Money, "SCALAR", <<>>),
            Type(T_Owner, "UNION", <<>>),
            Type(T_Filter, "INPUT_OBJECT", <<F_query>>) >>
    ELSE << Type(T_MetaSchema, "OBJECT", <<F_name>>),
            Type(T_Shop, "OBJECT", <<F_name, F_colour>>),
            Type(T_Flags, "OBJECT", <<F_a, F_b, F_c, F_d, F_e, F_f>>) >>

\* The kinds of type that declare output fields (an input object declares
\* input fields only)
FieldBearingKinds == {"OBJECT", "INTERFACE"}

\* The type names, and the pairs of a type name and a field name, that the
\* lookups are tried with
TypeNames == {T_Product, T_Order, T_Node, T_Status, T_Money, T_Owner, T_Filter, T_MetaType, T_Shop, T_Flags, T_NoSuchType}
FieldLookups ==
  ({T_Product} \X {F_title, F_Title, F_vendor, F_tite, F_x})
    \cup ({T_Order} \X {F_cancelledAt, F_canceledAt, F_id, F_x})
    \cup ({T_Shop} \X {F_colour, F_color, F_x})
    \cup ({T_Flags} \X {F_a, F_x})
    \cup ({T_Node, T_Filter, T_Status, T_MetaType, T_NoSuchType} \X {F_id, F_x})

\* ------------------------------------------------------------------ getTypeFields
\* Results of lookups: a value returned, or an error thrown with its message
Returned(v) == [status |-> "ok", err |-> "-", message |-> <<>>, val |-> v]
Raised(e, message) == [status |-> "error", err |-> e, message |-> message, val |-> <<>>]

\* schema.getType(typeName): the entry of that name, or none
NoType == Type(<<>>, "-", <<>>)
getType(s, typeName) ==
  LET typeMap == getTypeMap(s)
  IN IF \E n \in DOMAIN typeMap : typeMap[n].name = typeName
       THEN typeMap[CHOOSE n \in DOMAIN typeMap : typeMap[n].name = typeName]
       ELSE NoType

\* Object.keys(typeMap)
TypeKeys(s) == [n \in DOMAIN getTypeMap(s) |-> getTypeMap(s)[n].name]

\* The test of lines 144 and 187 with the filter left out
NotIntrospectionType_Any(name) == TRUE

\* name => !name.startsWith('__'), lines 144 and 187
NotIntrospectionType(name) == ~startsWith(name, <<"_", "_">>)

\* names.join(', ')
RECURSIVE join(_, _)
join(names, sep) ==
  IF names = <<>> THEN <<>>
  ELSE IF Len(names) = 1 THEN names[1]
  ELSE names[1] \o sep \o join(Tail(names), sep)

\* Line 145: the length the list of available types is cut to
SampleLimit == 500

\* Lines 144-145: the message of the error for a type that is not in the schema
TypeNotFoundMessage(s, typeName) ==
  LET availableTypes == join(SelectSeq(TypeKeys(s), NotIntrospectionType), <<",", " ">>)
  IN <<"T", "y", "p", "e", " ", "\"">> \o typeName
       \o <<"\"", " ", "n", "o", "t", " ", "f", "o", "u", "n", "d", " ", "i", "n", " ", "s", "c", "h", "e", "m", "a", ".", " ", "A", "v", "a", "i", "l", "a", "b", "l", "e", " ", "t", "y", "p", "e", "s", ":", " ">>
       \o substring0(availableTypes, SampleLimit) \o <<".", ".", ".">>

\* Line 143 with the test left out
TypeMissing_Never(type) == FALSE

\* Line 143: if (!type)
TypeMissing(type) == type = NoType

\* Lines 150-160: the descriptor made of a field (its name; description, type
\* and arguments are carried along unchanged and not modelled)
Descriptor(field) == [name |-> field]

\* Lines 137-163 of getTypeFields(typeName), on the schema s the instance
\* holds once loadSchema() has returned
TypeFieldsOf(s, typeName) ==
  IF s = NoDoc THEN Raised("SchemaNotLoaded", <<>>)
  ELSE LET type == getType(s, typeName)
       IN IF TypeMissing(type)
            THEN Raised("TypeNotFound", TypeNotFoundMessage(s, typeName))
          ELSE IF type.kind = "OBJECT"
            THEN Returned([n \in DOMAIN type.fields |-> Descriptor(type.fields[n])])
          ELSE Returned(<<>>)

\* Lines 134-136: the error of a failed loadSchema() leaves getTypeFields
\* as it is; ld is how the load ended
getTypeFields(ld, typeName) ==
  IF ld.result.status = "error" THEN Raised(ld.result.err, <<>>)
  ELSE TypeFieldsOf(ld.schemaI, typeName)

\* fieldExists without its try/catch: the error of getTypeFields is thrown on
FieldExistsOf_NoCatch(fields, fieldName) ==
  IF fields.status = "error" THEN fields
  ELSE Returned(\E n \in DOMAIN fields.val : fields.val[n].name = fieldName)

\* fieldExists(typeName, fieldName), lines 167-175, from the outcome of its
\* getTypeFields call on
FieldExistsOf(fields, fieldName) ==
  IF fields.status = "error" THEN Returned(FALSE)
  ELSE Returned(\E n \in DOMAIN fields.val : fields.val[n].name = fieldName)

\* getTypes(), lines 182-187: the keys of the type map that are left
TypeNamesOf(s) ==
  IF s = NoDoc THEN Raised("SchemaNotLoaded", <<>>)
  ELSE Returned(SelectSeq(TypeKeys(s), NotIntrospectionType))

\* Lines 179-181 of getTypes(): the error of a failed loadSchema() is thrown on
getTypes(ld) ==
  IF ld.result.status = "error" THEN Raised(ld.result.err, <<>>)
  ELSE TypeNamesOf(ld.schemaI)

\* ------------------------------------------------------------------ loads of lookups
\* A lookup is taken as one step, from its call to its return: a loadSchema()
\* it makes runs to its end within the step, the answer of the network
\* included. How a loadSchema() of instance i ends:
LoadToEnd(i, unlinkOk, resp, writeOk) ==
  LET r == LoadSync(i, FALSE, unlinkOk)
      k == [op |-> "loadSchema", inst |-> i, force |-> FALSE, reads |-> r.reads]
      a == LoadAsync(k, resp, writeOk)
  IN IF r.done
       THEN [result |-> r.result, schemaI |-> r.schemaI, rawI |-> r.rawI,
             memD |-> r.memD, file |-> r.file, loads |-> 1]
       ELSE [result |-> a.result, schemaI |-> a.schemaI, rawI |-> a.rawI,
             memD |-> a.memD,
             file |-> IF a.writes = 1 /\ writeOk THEN a.file ELSE r.file,
             loads |-> 1]

\* The ways a loadSchema() of instance i can end in the current state
LoadEnds(i) ==
  {LoadToEnd(i, unlinkOk, resp, writeOk) :
     unlinkOk \in UnlinkOutcomes, resp \in Responses, writeOk \in BOOLEAN}

\* No load is made: the instance holds a raw schema (lines 134 and 179)
Held(i) ==
  [result |-> Ok(rawSchema[i]), schemaI |-> schema[i], rawI |-> rawSchema[i],
   memD |-> IF hostName = NoHost THEN NoVal ELSE memCache[hostName],
   file |-> file, loads |-> 0]

\* Lines 134-136 and 179-181: if (!this.rawSchema) await this.loadSchema()
EnsureLoaded(i) == IF NeedsLoad(rawSchema[i]) THEN LoadEnds(i) ELSE {Held(i)}

\* The state a lookup leaves once its load has ended as ld
Loaded(i, ld) ==
  /\ schema' = [schema EXCEPT ![i] = ld.schemaI]
  /\ rawSchema' = [rawSchema EXCEPT ![i] = ld.rawI]
  /\ memCache' = IF hostName = NoHost THEN memCache
                 ELSE [memCache EXCEPT ![hostName] = ld.memD]
  /\ file' = ld.file
  /\ UNCHANGED <<hostName, accessToken, calls, last, cache, cacheFile>>

\* The record of a lookup: the operation, whether it has returned (done) or
\* is at its second await (exists), its arguments, the schema the
\* instance held when it answered, the loadSchema() calls it made and how the
\* last of them ended, and what it returned or threw
Lookup(op, phase, typeName, fieldName, ld, result) ==
  [op |-> op, phase |-> phase, typeName |-> typeName, fieldName |-> fieldName,
   schema |-> ld.schemaI, loads |-> ld.loads, loadStatus |-> ld.result.status,
   result |-> result]

\* The instance the lookups are made on: server.shopifySchema
LookupInst == "singleton"

\* ------------------------------------------------------------------ checkField
\* The decimal digits, and the decimal form of a number
Digits == <<"0", "1", "2", "3", "4", "5", "6", "7", "8", "9">>
RECURSIVE DecimalString(_)
DecimalString(n) ==
  IF n < Len(Digits) THEN <<Digits[n + 1]>>
  ELSE DecimalString(n \div Len(Digits)) \o <<Digits[(n % Len(Digits)) + 1]>>

\* Object.keys(array): the indices of the array, as strings
ObjectKeys(array) == [n \in DOMAIN array |-> DecimalString(n - 1)]

\* array[key] for a string key: the element of that index, or undefined
Undefined == [name |-> <<>>]
Property(array, key) ==
  IF \E n \in DOMAIN array : ObjectKeys(array)[n] = key
    THEN array[CHOOSE n \in DOMAIN array : ObjectKeys(array)[n] = key]
    ELSE Undefined

\* Lines 523 and 525: the greatest distance of a suggestion, and the number
\* of suggestions kept
MaxDistance == 3
MaxSuggestions == 5

\* array.sort((a, b) => a.distance - b.distance): ascending, and stable
RECURSIVE SortByDistance(_)
SortByDistance(items) ==
  IF items = <<>> THEN <<>>
  ELSE LET n == CHOOSE x \in DOMAIN items : \A y \in DOMAIN items :
                  \/ items[x].distance < items[y].distance
                  \/ items[x].distance = items[y].distance /\ x <= y
       IN <<items[n]>> \o SortByDistance(SubSeq(items, 1, n - 1) \o SubSeq(items, n + 1, Len(items)))

\* Lines 518-526: the names of fieldNames within MaxDistance of fieldName,
\* nearest first, MaxSuggestions at most
WithinDistance(item) == item.distance <= MaxDistance
SimilarFields(fieldNames, fieldName) ==
  LET measured == [n \in DOMAIN fieldNames |->
                     [name |-> fieldNames[n],
                      distance |-> NameDistance(fieldNames[n], fieldName)]]
      sorted == SortByDistance(SelectSeq(measured, WithinDistance))
      kept == SubSeq(sorted, 1, IF Len(sorted) < MaxSuggestions THEN Len(sorted) ELSE MaxSuggestions)
  IN [n \in DOMAIN kept |-> kept[n].name]

\* Lines 529-538: the spelling pairs, US first
commonReplacements ==
  << <<<<"c", "o", "l", "o", "r">>, <<"c", "o", "l", "o", "u", "r">>>>,
     <<<<"c", "a", "n", "c", "e", "l", "e", "d">>, <<"c", "a", "n", "c", "e", "l", "l", "e", "d">>>>,
     <<<<"c", "e", "n", "t", "e", "r">>, <<"c", "e", "n", "t", "r", "e">>>>,
     <<<<"c", "u", "s", "t", "o", "m", "i", "z", "e">>, <<"c", "u", "s", "t", "o", "m", "i", "s", "e">>>>,
     <<<<"f", "a", "v", "o", "r", "i", "t", "e">>, <<"f", "a", "v", "o", "u", "r", "i", "t", "e">>>>,
     <<<<"f", "u", "l", "f", "i", "l", "l">>, <<"f", "u", "l", "f", "i", "l">>>>,
     <<<<"p", "r", "o", "g", "r", "a", "m">>, <<"p", "r", "o", "g", "r", "a", "m", "m", "e">>>>,
     <<<<"l", "i", "c", "e", "n", "s", "e">>, <<"l", "i", "c", "e", "n", "c", "e">>>> >>

\* array.includes(x)
Contains(array, x) == \E n \in DOMAIN array : array[n] = x

\* Lines 540-549: the name with the spelling of the first pair replaced for
\* which the replaced name is in fieldNames; '' (then null) if there is none
NoSuggestion == <<>>
UsToUk(fieldNames, fieldName, pair) ==
  includes(fieldName, pair[1]) /\ Contains(fieldNames, replace(fieldName, pair[1], pair[2]))
UkToUs(fieldNames, fieldName, pair) ==
  /\ ~UsToUk(fieldNames, fieldName, pair)
  /\ includes(fieldName, pair[2]) /\ Contains(fieldNames, replace(fieldName, pair[2], pair[1]))
SpellingSuggestion(fieldNames, fieldName) ==
  LET hits == {n \in DOMAIN commonReplacements :
                 \/ UsToUk(fieldNames, fieldName, commonReplacements[n])
                 \/ UkToUs(fieldNames, fieldName, commonReplacements[n])}
  IN IF hits = {} THEN NoSuggestion
     ELSE LET n == CHOOSE x \in hits : \A y \in hits : x <= y
              pair == commonReplacements[n]
          IN IF UsToUk(fieldNames, fieldName, pair)
               THEN replace(fieldName, pair[1], pair[2])
               ELSE replace(fieldName, pair[2], pair[1])

\* checkField, lines 496-558, from the answer exists of fieldExists and the
\* outcome fields of the getTypeFields call that follows it
CheckFieldOf(exists, fields, fieldName) ==
  IF fields.status = "error" THEN fields
  ELSE IF exists
    THEN IF Property(fields.val, fieldName) = Undefined
           THEN Raised("TypeError", <<>>)
           ELSE Returned([exists |-> TRUE, similar_fields |-> <<>>, suggestion |-> NoSuggestion])
  ELSE LET fieldNames == ObjectKeys(fields.val)
       IN Returned([exists |-> FALSE,
                    similar_fields |-> SimilarFields(fieldNames, fieldName),
                    suggestion |-> SpellingSuggestion(fieldNames, fieldName)])

\* ------------------------------------------------------------------ explore_schema
\* Line 377: the greatest difference in length of a similar name
MaxLengthDifference == 3

\* Lines 375-380: the names the check_field action takes for similar
FirstChar(name) == IF name = <<>> THEN "" ELSE LowerChar(name[1])
LengthDifference(x, y) == IF Len(x) >= Len(y) THEN Len(x) - Len(y) ELSE Len(y) - Len(x)
LooksSimilar(name, field_name) ==
  \/ FirstChar(name) = FirstChar(field_name)
  \/ LengthDifference(name, field_name) <= MaxLengthDifference
  \/ includes(toLowerCase(name), toLowerCase(field_name))
  \/ includes(toLowerCase(field_name), toLowerCase(name))

\* The answer of the handler when an error was thrown, lines 411-418
ToolError(r) == [status |-> "ok", err |-> r.err, message |-> r.message, val |-> <<>>]

\* The check_field action of explore_schema, lines 224 and 332-400, on the
\* schema the instance holds once the loadSchema() of line 224 has ended as ld
ExploreCheckFieldOf(ld, type_name, field_name) ==
  IF ld.result.status = "error" THEN ToolError(Raised(ld.result.err, <<>>))
  ELSE LET fields == TypeFieldsOf(ld.schemaI, type_name)
           exists == FieldExistsOf(fields, field_name).val
           fieldNames == [n \in DOMAIN fields.val |-> fields.val[n].name]
           similarFields == SelectSeq(fieldNames, LAMBDA name : LooksSimilar(name, field_name))
       IN IF exists
            THEN Returned([exists |-> TRUE, similar_fields |-> <<>>, available |-> <<>>])
          ELSE IF fields.status = "error" THEN ToolError(fields)
          ELSE Returned([exists |-> FALSE, similar_fields |-> similarFields,
                         available |-> IF similarFields = <<>> THEN fieldNames ELSE <<>>])

\* ------------------------------------------------------------------ lookup steps
\* No checkField call is at its second await
NoneWaiting == lookup.phase = "done"

\* getTypeFields(typeName) on the instance
GetTypeFields(typeName) ==
  /\ NoneWaiting
  /\ \E ld \in EnsureLoaded(LookupInst) :
       /\ lookup' = Lookup("getTypeFields", "done", typeName, <<>>, ld,
                           getTypeFields(ld, typeName))
       /\ Loaded(LookupInst, ld)

\* fieldExists(typeName, fieldName) on the instance
FieldExists(typeName, fieldName) ==
  /\ NoneWaiting
  /\ \E ld \in EnsureLoaded(LookupInst) :
       /\ lookup' = Lookup("fieldExists", "done", typeName, fieldName, ld,
                           FieldExistsOf(getTypeFields(ld, typeName), fieldName))
       /\ Loaded(LookupInst, ld)

\* getTypes() on the instance, with the names it returns
ListTypes ==
  /\ NoneWaiting
  /\ \E ld \in EnsureLoaded(LookupInst) :
       /\ lookup' = Lookup("getTypes", "done", <<>>, <<>>, ld, getTypes(ld))
       /\ Loaded(LookupInst, ld)

\* checkField up to the return of fieldExists (line 494)
CheckFieldStart(typeName, fieldName) ==
  /\ NoneWaiting
  /\ \E ld \in EnsureLoaded(LookupInst) :
       /\ lookup' = Lookup("checkField", "exists", typeName, fieldName, ld,
                           FieldExistsOf(getTypeFields(ld, typeName), fieldName))
       /\ Loaded(LookupInst, ld)

\* checkField from the return of fieldExists on (lines 496-558)
CheckFieldEnd ==
  /\ lookup.op = "checkField" /\ lookup.phase = "exists"
  /\ \E ld \in EnsureLoaded(LookupInst) :
       /\ lookup' = Lookup("checkField", "done", lookup.typeName, lookup.fieldName, ld,
                           CheckFieldOf(lookup.result.val,
                                        getTypeFields(ld, lookup.typeName),
                                        lookup.fieldName))
       /\ Loaded(LookupInst, ld)

\* The check_field action of the explore_schema tool
ExploreCheckField(type_name, field_name) ==
  /\ NoneWaiting
  /\ \E ld \in LoadEnds(LookupInst) :
       /\ lookup' = Lookup("explore_schema", "done", type_name, field_name, ld,
                           ExploreCheckFieldOf(ld, type_name, field_name))
       /\ Loaded(LookupInst, ld)

\* The states the lookups start in: a new process, with the host name and the
\* access token configured or not, and no cache file, an unreadable one or
\* one that holds a document
InitLookup ==
  /\ memCache = [d \in Domains |-> NoVal]
  /\ schema = [i \in Inst |-> NoDoc]
  /\ rawSchema = [i \in Inst |-> NoVal]
  /\ file \in {NoFile, Garbage} \cup {JSON_stringify(SchemaVal(d)) : d \in Docs}
  /\ hostName \in {"A", NoHost}
  /\ accessToken \in BOOLEAN
  /\ calls = NoCalls
  /\ last = Step("start", "sync", NoInst, FALSE, "-", NoResult, 0, 0, 0, 0, 0,
                 NoVal, file, NoResponse, FALSE, TRUE)
  /\ lookup = NoLookup
  /\ NoSchemaCache

NextLookup ==
  \/ \E t \in TypeNames : GetTypeFields(t)
  \/ \E p \in FieldLookups : FieldExists(p[1], p[2])
  \/ ListTypes
  \/ \E p \in FieldLookups : CheckFieldStart(p[1], p[2])
  \/ CheckFieldEnd
  \/ \E p \in FieldLookups : ExploreCheckField(p[1], p[2])

SpecLookup == InitLookup /\ [][NextLookup]_vars

\* ------------------------------------------------------------------ SchemaCache
\* The documents handed to setSchema: the values, and null (NoVal), which
\* JSON.stringify writes as a text that JSON.parse reads back as null
CacheDocs == Values \cup {NoVal}

\* No setSchema whose write succeeded is on record
NotWritten == [kind |-> "unwritten", doc |-> NoDoc]

\* getSchema() with the read of the cache file left out (lines 36-40)
GetSchemaOf_MemoryOnly(mem, f) ==
  [result |-> mem, cache |-> mem, source |-> IF mem # NoVal THEN "memory" ELSE "none"]

\* getSchema(), lines 28-47: the value in memory if there is one (null is
\* none); else the parsed cache file if it exists, which is kept in memory;
\* null if there is no file or if it cannot be parsed
GetSchemaOf(mem, f) ==
  IF mem # NoVal THEN [result |-> mem, cache |-> mem, source |-> "memory"]
  ELSE IF f # NoFile /\ JSON_parse(f).ok
    THEN [result |-> JSON_parse(f).val, cache |-> JSON_parse(f).val, source |-> "file"]
  ELSE [result |-> NoVal, cache |-> mem, source |-> "none"]

\* The record of a call of SchemaCache:
\*   doc       the argument of setSchema
\*   result    what getSchema returned
\*   source    where getSchema found it: memory, file, none
\*   written   the document of the last setSchema whose write succeeded, if
\*             only reads and restarts have followed it
\*   restarted the process has been restarted since that setSchema
CacheCall(op, doc, result, source, written, restarted) ==
  [op |-> op, phase |-> "done", doc |-> doc, result |-> result, source |-> source,
   written |-> written, restarted |-> restarted]

InitCache ==
  /\ LoaderIdle
  /\ cache = NoVal
  /\ cacheFile \in FileTexts \cup {NoFile}
  /\ lookup = CacheCall("none", NoVal, NoVal, "none", NotWritten, FALSE)

\* setSchema(schema), lines 49-59; writeOk: whether fs.writeFileSync succeeds
\* (its error is logged and swallowed)
SetSchema(doc, writeOk) ==
  /\ cache' = doc
  /\ cacheFile' = WriteFile(cacheFile, doc, writeOk)
  /\ lookup' = CacheCall("setSchema", doc, NoVal, "none",
                         IF writeOk THEN doc ELSE NotWritten, FALSE)
  /\ UNCHANGED loaderVars

\* getSchema(), lines 28-47
GetSchema ==
  LET g == GetSchemaOf(cache, cacheFile)
  IN /\ cache' = g.cache
     /\ lookup' = CacheCall("getSchema", NoVal, g.result, g.source,
                            lookup.written, lookup.restarted)
     /\ UNCHANGED <<loaderVars, cacheFile>>

\* clearCache(), lines 61-73; unlinkOk: whether fs.unlinkSync succeeds
ClearSchemaCache(unlinkOk) ==
  /\ cache' = NoVal
  /\ cacheFile' = IF cacheFile # NoFile THEN Unlink(cacheFile, unlinkOk) ELSE cacheFile
  /\ lookup' = CacheCall("clearCache", NoVal, NoVal, "none", NotWritten, FALSE)
  /\ UNCHANGED loaderVars

\* The process ends and a new one starts: the instance of SchemaCache is new
\* (line 8), the cache file remains
CacheRestart ==
  /\ cache' = NoVal
  /\ lookup' = CacheCall("restart", NoVal, NoVal, "none", lookup.written,
                         lookup.written # NotWritten)
  /\ UNCHANGED <<loaderVars, cacheFile>>

NextCache ==
  \/ \E doc \in CacheDocs, writeOk \in BOOLEAN : SetSchema(doc, writeOk)
  \/ GetSchema
  \/ \E unlinkOk \in BOOLEAN : ClearSchemaCache(unlinkOk)
  \/ CacheRestart

SpecCache == InitCache /\ [][NextCache]_vars

\* ------------------------------------------------------------------ tool handlers
\* The handlers registered with server.tool(): what each is called with, what
\* it sends through client.request and what it answers.  The Shopify API is
\* the environment: a request is answered with data or an error is thrown.

\* The answer of a handler: one text item, by its heading and what follows it
Text(heading, detail) == [kind |-> "text", heading |-> heading, detail |-> detail]

\* An error thrown within a handler, or leaving it
Thrown(error) == [kind |-> "thrown", heading |-> "-", detail |-> error]

\* A call of client.request(document, { variables })
Request(document, variables) == [document |-> document, variables |-> variables]

\* What is thrown: an Error with a message, or a string
\* What client.request throws (src/unnamed/part_006, lines 176-188, throws
\* an Error or what the API client threw): an Error with a message, which may carry the errors of the
\* API as graphQLErrors or response.errors, or a string, which has no message
\* ("" stands for undefined); string is what String(error) gives
Error(message) == [type |-> "Error", message |-> message, string |-> message,
                   graphQLErrors |-> <<>>, responseErrors |-> <<>>]

StringError(s) == [type |-> "string", message |-> "", string |-> s,
                   graphQLErrors |-> <<>>, responseErrors |-> <<>>]

\* What client.request returns, by the shape of the data
Data(shape) == [kind |-> "data", heading |-> shape, detail |-> Error("")]

NoRequest == Data("none")

\* An argument that was left out, and one that was passed
Absent(v) == [given |-> FALSE, val |-> v]
Given(v) == [given |-> TRUE, val |-> v]

\* The record of a handler's call: its arguments, the requests it sent in
\* order, how the API answered the last one (for explore_schema, how the
\* loadSchema() ended), and the answer it gave
ToolInput(tool, args) == [op |-> "input", phase |-> "done", tool |-> tool, args |-> args]

ToolCall(tool, args, requests, response, result) ==
  [op |-> "call", phase |-> "done", tool |-> tool, args |-> args,
   requests |-> requests, response |-> response, result |-> result]

\* ------------------------------------------------------------------ query_shopify
\* src/src/shopify-query.ts.  The query text is the sequence of the keywords
\* that open its top-level definitions; "{" opens a query in shorthand form
\* and "}" stands for text that is no definition.
Keywords == {"query", "mutation", "subscription", "fragment", "{", "}"}

MaxDefinitions == 2

QueryTexts == UNION {[1..n -> Keywords] : n \in 0..MaxDefinitions}

OperationKeywords == {"query", "mutation", "subscription", "{"}

\* A definition of the parsed document
Definition(keyword) ==
  IF keyword = "fragment" THEN [kind |-> "FragmentDefinition", operation |-> "-"]
  ELSE [kind |-> "OperationDefinition",
        operation |-> IF keyword = "{" THEN "query" ELSE keyword]

\* Line 23: parse(query) of graphql, which throws a syntax error on a text
\* without definitions or with text that is no definition
parse(query) ==
  IF query = <<>> \/ \E n \in DOMAIN query : query[n] \notin OperationKeywords \cup {"fragment"}
    THEN Thrown(Error("Syntax Error"))
  ELSE [kind |-> "document", heading |-> "-",
        detail |-> [n \in DOMAIN query |-> Definition(query[n])]]

\* Lines 26-29: some definition is a mutation operation
IsMutation_Never(definitions) == FALSE

IsMutation(definitions) ==
  \E n \in DOMAIN definitions :
    /\ definitions[n].kind = "OperationDefinition"
    /\ definitions[n].operation = "mutation"

\* Lines 62-75: the catch of the handler
QueryCatch(error) ==
  LET errorMessage == IF error.message # "" THEN error.message ELSE error.string
      isValidationError == errorMessage \in {"Syntax Error", "Cannot query field"}
  IN Text(IF isValidationError THEN "# Error Executing GraphQL Query"
          ELSE "# Error Executing GraphQL Request", <<errorMessage>>)

\* How the API answers a forwarded document
QueryResponses == {Data("response"), Thrown(Error("Cannot query field")),
                   Thrown(Error("fetch failed")), Thrown(StringError("GraphQL errors"))}

\* Line 16: allow_mutations = false when left out
AllowMutations(arg) == IF arg.given THEN arg.val ELSE FALSE

\* The handler, lines 16-76, with the API answering response to its request
QueryShopifyOf(args, response) ==
  LET parsedQuery == parse(args.query)
      request == Request(args.query, args.variables)
  IN IF parsedQuery.kind = "thrown"
       THEN [requests |-> <<>>, result |-> QueryCatch(parsedQuery.detail)]
     ELSE IF IsMutation(parsedQuery.detail) /\ ~AllowMutations(args.allow_mutations)
       THEN [requests |-> <<>>, result |-> Text("# Error: Mutations Not Allowed", <<>>)]
     ELSE IF response.kind = "thrown"
       THEN [requests |-> <<request>>, result |-> QueryCatch(response.detail)]
     ELSE [requests |-> <<request>>, result |-> Text("# Shopify GraphQL Response", <<>>)]

QueryInputs ==
  {ToolInput("query_shopify", [query |-> q, variables |-> v, allow_mutations |-> a]) :
     q \in QueryTexts, v \in {Absent(""), Given("variables")},
     a \in {Absent(FALSE), Given(FALSE), Given(TRUE)}}

Called(tool) == lookup.op = "input" /\ lookup.tool = tool

QueryShopify ==
  /\ Called("query_shopify")
  /\ \E response \in QueryResponses :
       LET answer == QueryShopifyOf(lookup.args, response)
       IN lookup' = ToolCall("query_shopify", lookup.args, answer.requests,
                             IF answer.requests = <<>> THEN NoRequest ELSE response,
                             answer.result)
  /\ UNCHANGED <<loaderVars, cache, cacheFile>>

\* ------------------------------------------------------------------ browse_products
\* src/src/tools/shopify-products.ts, lines 198-417 and 668-813.  A number is
\* held by its whole part and its first decimal: z.number() accepts 0.5.
Num(whole, tenth) == [given |-> TRUE, whole |-> whole, tenth |-> tenth]

NoNum == [given |-> FALSE, whole |-> 0, tenth |-> 0]

DefaultLimit == 10

MaxLimit == 50

\* Line 206: limit = 10 when left out
LimitOf(arg) == IF arg.given THEN arg ELSE Num(DefaultLimit, 0)

\* Line 218: limit <= 0 || limit > 50
LimitInvalid(limit) ==
  \/ limit.whole < 0 \/ (limit.whole = 0 /\ limit.tenth = 0)
  \/ limit.whole > MaxLimit \/ (limit.whole = MaxLimit /\ limit.tenth > 0)

\* Line 309: parseInt(String(limit)) || 10, of a limit that is not negative
FirstOf(limit) == IF limit.whole = 0 THEN DefaultLimit ELSE limit.whole

\* id.trim(): the text without the blanks at its ends
RECURSIVE trim(_)
trim(s) ==
  IF s = <<>> THEN s
  ELSE IF Head(s) = " " THEN trim(Tail(s))
  ELSE IF s[Len(s)] = " " THEN trim(SubSeq(s, 1, Len(s) - 1))
  ELSE s

GidPrefix == <<"g", "i", "d", ":", "/", "/", "s", "h", "o", "p", "i", "f", "y", "/",
               "P", "r", "o", "d", "u", "c", "t", "/">>

\* Lines 681-685: the full id of a product
FullId(id) == IF includes(id, <<"/">>) THEN id ELSE GidPrefix \o id

\* getProductDetails(server, id), lines 668-813, the API answering response
getProductDetails(id, response) ==
  LET request == Request("GetProduct", [id |-> FullId(id)])
  IN IF id = <<>> \/ trim(id) = <<>>
       THEN [requests |-> <<>>, result |-> Text("# Error", <<"Please provide a valid product ID.">>)]
     ELSE IF response.kind = "thrown"
       THEN [requests |-> <<request>>,
             result |-> Text("# Error", <<"Failed to retrieve product details", response.detail.message>>)]
     ELSE IF response.heading = "product"
       THEN [requests |-> <<request>>, result |-> Text("# Product", <<"details">>)]
     ELSE [requests |-> <<request>>, result |-> Text("# Product Not Found", <<>>)]

\* The handler of browse_products, lines 206-416
BrowseProductsOf(args, response) ==
  LET limit == LimitOf(args.limit)
      request == Request(IF args.include_inventory THEN "GetProductsWithInventory"
                         ELSE "GetProducts", [first |-> FirstOf(limit)])
  IN IF args.product_id.given /\ args.product_id.val # <<>>
       THEN getProductDetails(args.product_id.val, response)
     ELSE IF LimitInvalid(limit)
       THEN [requests |-> <<>>, result |-> Text("# Invalid Request", <<>>)]
     ELSE IF response.kind = "thrown"
       THEN [requests |-> <<request>>,
             result |-> Text("# Error", <<"Failed to retrieve products", response.detail.message>>)]
     ELSE IF response.heading = "products"
       THEN [requests |-> <<request>>, result |-> Text("# Shopify Products", <<>>)]
     ELSE IF response.heading = "noProducts"
       THEN [requests |-> <<request>>, result |-> Text("# No Products Found", <<>>)]
     ELSE [requests |-> <<request>>,
           result |-> Text("# Error", <<"Failed to retrieve products", "Unexpected response format">>)]

Limits == {Num(0 - 1, 0), Num(0, 0), Num(0, 5), Num(1, 0), Num(DefaultLimit, 0),
           Num(MaxLimit, 0), Num(MaxLimit, 5), Num(MaxLimit + 1, 0)}

ProductIds == {<<>>, <<" ">>, <<"4", "2">>, GidPrefix \o <<"4", "2">>}

BrowseResponses == {Data("products"), Data("noProducts"), Data("product"), Data("unexpected"),
                    Thrown(Error("fetch failed"))}

BrowseInputs ==
  {ToolInput("browse_products", [limit |-> l, include_inventory |-> inv, product_id |-> id]) :
     l \in Limits \cup {NoNum}, inv \in BOOLEAN,
     id \in {Absent(<<>>)} \cup {Given(v) : v \in ProductIds}}

BrowseProducts ==
  /\ Called("browse_products")
  /\ \E response \in BrowseResponses :
       LET answer == BrowseProductsOf(lookup.args, response)
       IN lookup' = ToolCall("browse_products", lookup.args, answer.requests,
                             IF answer.requests = <<>> THEN NoRequest ELSE response,
                             answer.result)
  /\ UNCHANGED <<loaderVars, cache, cacheFile>>

\* ------------------------------------------------------------------ update_variant_price
\* src/src/tools/shopify-products.ts, lines 565-664.  A value of JavaScript:
\* undefined, null, a string, or a number held by its decimal text
JSUndefined == [type |-> "undefined", val |-> ""]
JSNull == [type |-> "null", val |-> ""]
JSString(s) == [type |-> "string", val |-> s]
JSNumber(text) == [type |-> "number", val |-> text]

\* Line 572: z.coerce.string().nullable().optional() keeps undefined and
\* null and makes a string of anything else
CoerceNullableString(v) ==
  IF v.type \in {"undefined", "null"} THEN v ELSE JSString(v.val)

\* Lines 594-596: what compareAtPrice is set to
CompareAtPriceOf_AsGiven(v) == v

CompareAtPriceOf(v) == IF v = JSString("") \/ v = JSNull THEN JSNull ELSE v

\* Lines 586-596: the fields of variantInput and their values
VariantInputKeys(new_price, new_compare_at_price) ==
  {"id"} \cup (IF new_price # JSUndefined THEN {"price"} ELSE {})
         \cup (IF new_compare_at_price # JSUndefined THEN {"compareAtPrice"} ELSE {})

VariantInput(variant_id, new_price, new_compare_at_price) ==
  [key \in VariantInputKeys(new_price, new_compare_at_price) |->
     IF key = "id" THEN JSString(variant_id)
     ELSE IF key = "price" THEN new_price
     ELSE CompareAtPriceOf(new_compare_at_price)]

\* Lines 576-580: nothing to update
NothingToUpdate(new_price, new_compare_at_price) ==
  new_price = JSUndefined /\ new_compare_at_price = JSUndefined

\* Lines 645-661: the catch of the handler
UpdateCatch_Rethrows(error) == Thrown(error)

UpdateCatch(error) ==
  LET errorMessage ==
        IF error.graphQLErrors # <<>> THEN error.graphQLErrors
        ELSE IF error.responseErrors # <<>> THEN error.responseErrors
        ELSE IF error.type = "string" /\ error.string = "GraphQL errors: [m1]" THEN <<"m1">>
        ELSE <<IF error.message = "" THEN "undefined" ELSE error.message>>
  IN Text("# Error", <<"Failed to update variant price">> \o errorMessage)

\* The handler, lines 574-662, the API answering response
UpdateVariantPriceOf(args, response) ==
  LET new_compare_at_price == CoerceNullableString(args.new_compare_at_price)
      variantInput == VariantInput(args.variant_id, args.new_price, new_compare_at_price)
      request == Request("ProductVariantUpdate", [input |-> variantInput])
  IN IF NothingToUpdate(args.new_price, new_compare_at_price)
       THEN [requests |-> <<>>,
             result |-> Text("# Error", <<"Please provide at least new_price or new_compare_at_price.">>)]
     ELSE IF response.kind = "thrown"
       THEN [requests |-> <<request>>, result |-> UpdateCatch(response.detail)]
     ELSE IF response.heading = "userErrors"
       THEN [requests |-> <<request>>, result |-> Text("# Error Updating Variant Price", <<>>)]
     ELSE IF response.heading # "productVariant"
       THEN [requests |-> <<request>>,
             result |-> UpdateCatch(Error("Variant price update failed - no variant data returned."))]
     ELSE [requests |-> <<request>>, result |-> Text("# Variant Price Updated Successfully", <<>>)]

UpdateResponses ==
  {Data("productVariant"), Data("userErrors"), Data("noVariant"),
   Thrown(Error("fetch failed")),
   Thrown([Error("GraphQL") EXCEPT !.graphQLErrors = <<"m1", "m2">>]),
   Thrown([Error("GraphQL") EXCEPT !.responseErrors = <<"m1">>]),
   Thrown(StringError("GraphQL errors: [m1]")), Thrown(StringError("timeout"))}

UpdateInputs ==
  {ToolInput("update_variant_price",
             [variant_id |-> "gid://shopify/ProductVariant/1", new_price |-> p,
              new_compare_at_price |-> c]) :
     p \in {JSUndefined, JSString(""), JSString("9.99")},
     c \in {JSUndefined, JSNull, JSString(""), JSString("19.99"), JSNumber("20")}}

UpdateVariantPrice ==
  /\ Called("update_variant_price")
  /\ \E response \in UpdateResponses :
       LET answer == UpdateVariantPriceOf(lookup.args, response)
       IN lookup' = ToolCall("update_variant_price", lookup.args, answer.requests,
                             IF answer.requests = <<>> THEN NoRequest ELSE response,
                             answer.result)
  /\ UNCHANGED <<loaderVars, cache, cacheFile>>

\* ------------------------------------------------------------------ explore_schema as a tool
\* How the schema component ends the loadSchema() of line 224 of the handler
\* of explore_schema: with an error, or with the index of a document
SchemaOutcomes ==
  {[result |-> Err("ConfigHost"), schemaI |-> NoDoc],
   [result |-> Err("BuildSchema"), schemaI |-> NoDoc],
   [result |-> Ok(SchemaVal("dA")), schemaI |-> "dA"]}

\* The text of the answer of check_field, lines 332-400 and 411-418
ExploreAnswer(r) ==
  IF r.err # "-" THEN Text("# Error Exploring Schema", <<r.err>>)
  ELSE IF r.val.exists THEN Text("# Field Check: exists", <<>>)
  ELSE Text("# Field Check: not found", <<>>)

ExploreInputs ==
  {ToolInput("explore_schema", [action |-> "check_field", type_name |-> t[1],
                                field_name |-> t[2]]) :
     t \in ({T_Product} \X {F_title, F_tite}) \cup ({T_Node, T_NoSuchType} \X {F_id})}

ExploreSchema ==
  /\ Called("explore_schema")
  /\ \E ld \in SchemaOutcomes :
       lookup' = ToolCall("explore_schema", lookup.args, <<>>,
                          IF ld.result.status = "error" THEN Thrown(Error(ld.result.err))
                          ELSE Data("schema"),
                          ExploreAnswer(ExploreCheckFieldOf(ld, lookup.args.type_name,
                                                            lookup.args.field_name)))
  /\ UNCHANGED <<loaderVars, cache, cacheFile>>

\* ------------------------------------------------------------------ calls of tools
ToolInputs == QueryInputs \cup BrowseInputs \cup UpdateInputs \cup ExploreInputs

InitTools == LoaderIdle /\ NoSchemaCache /\ lookup \in ToolInputs

NextTools == QueryShopify \/ BrowseProducts \/ UpdateVariantPrice \/ ExploreSchema

SpecTools == InitTools /\ [][NextTools]_vars

\* ------------------------------------------------------------------ claims
Configured == hostName # NoHost /\ accessToken

\* The cache files loadSchema accepts: the JSON text of a complete document
ValidFiles == {JSON_stringify(SchemaVal(d)) : d \in Docs}

\* A direct loadSchema() call, as it starts (it ends in the same step unless
\* it suspends at the request)
LoadStarts == last.op = "loadSchema" /\ last.phase \in {"sync", "await"}

\* A direct loadSchema() call ending after the network answered
LoadResumed == last.op = "loadSchema" /\ last.phase = "resumed"

\* C1 (as claimed): a loadSchema() that started with no cache file and no
\* memory entry, and whose request the network answered with a document, has
\* issued exactly one request and returns that document, which is then in the
\* memory cache (so that a second call is answered without a request).
C1_ColdLoadFetchesOnceAndSucceeds ==
  (LoadResumed /\ ~last.force /\ last.reads = 0 /\ last.response.kind = "doc")
    => /\ last.fetches = 1
       /\ last.result = Ok(SchemaVal(last.response.doc))
       /\ memCache[hostName] = SchemaVal(last.response.doc)

\* C2: with host name and access token configured, loadSchema(true) issues the
\* introspection request whatever the memory cache and the cache file hold;
\* a forced call is never answered from the memory cache or the file, and
\* never returns a document without having issued a request.
C2_ForcedLoadAlwaysFetches ==
  (last.op = "loadSchema" /\ last.force)
    => /\ last.path \notin {"memory", "file"}
       /\ Configured => (last.path = "fetch" /\ last.fetches = 1
                           /\ last.phase \in {"await", "resumed"})
       /\ last.result.status = "ok" => last.fetches >= 1

\* C2 witness: a forced call has issued its request although the memory cache
\* and the cache file both hold a document.
C2_Witness ==
  /\ last.op = "loadSchema" /\ last.force /\ last.phase = "await"
  /\ last.preMem # NoVal /\ last.preFile \in ValidFiles

\* C3: a loadSchema() without forcing that finds a memory entry for the
\* configured store domain returns that document in the same step, with no
\* read, write or removal of the cache file and no request; the file and the
\* memory entry are as before.
C3_MemoryHitDoesNoIO ==
  (LoadStarts /\ ~last.force /\ last.preMem # NoVal)
    => /\ last.phase = "sync" /\ last.path = "memory"
       /\ last.result = Ok(last.preMem)
       /\ last.fetches = 0 /\ last.reads = 0 /\ last.writes = 0 /\ last.unlinks = 0
       /\ file = last.preFile
       /\ memCache[hostName] = last.preMem

\* C3 witness: a call was answered from the memory cache while a cache file
\* exists.
C3_Witness ==
  /\ LoadStarts /\ last.path = "memory" /\ last.result.status = "ok"
  /\ file # NoFile

\* C4: a loadSchema() without forcing that finds no memory entry and a cache
\* file holding a complete document builds the schema from it, stores the
\* document in the memory cache and returns it, with no request.
C4_ValidFileIsLoaded ==
  (LoadStarts /\ ~last.force /\ hostName # NoHost /\ last.preMem = NoVal
     /\ last.preFile \in ValidFiles)
    => /\ last.phase = "sync" /\ last.path = "file"
       /\ JSON_stringify(last.result.val) = last.preFile
       /\ last.result.status = "ok"
       /\ memCache[hostName] = last.result.val
       /\ rawSchema[last.inst] = last.result.val
       /\ schema[last.inst] = last.result.val.doc
       /\ last.fetches = 0
       /\ file = last.preFile

\* C4 witness: a call was answered from the cache file.
C4_Witness ==
  /\ LoadStarts /\ last.path = "file" /\ last.preMem = NoVal
  /\ last.result.status = "ok"

\* C5 (as claimed): a loadSchema() that found an invalid cache file has fallen
\* back to the request, and when the network answers with a document the call
\* returns it.
C5_CorruptFileThenFetchSucceeds ==
  (LoadResumed /\ ~last.force /\ last.reads = 1 /\ last.response.kind = "doc")
    => /\ last.unlinks = 1
       /\ last.result.status = "ok"
       /\ last.result.val = SchemaVal(last.response.doc)

\* C6 (as claimed): when the network answers with a document and the write of
\* the cache file fails, the call still returns the document and keeps it in
\* the memory cache and in the instance.
C6_WriteFailureIsSwallowed ==
  (LoadResumed /\ last.response.kind = "doc" /\ ~last.writeOk)
    => /\ last.result = Ok(SchemaVal(last.response.doc))
       /\ memCache[hostName] = SchemaVal(last.response.doc)
       /\ rawSchema[last.inst] = SchemaVal(last.response.doc)

\* C7 (as claimed): after clearCache() the memory cache holds no document and
\* the cache file is absent.
C7_ClearLeavesNothing ==
  last.op = "clearCache"
    => (\A d \in Domains : memCache[d] = NoVal) /\ file = NoFile

\* C7 (amended): after clearCache() the memory cache holds no document; the
\* cache file is absent unless its removal failed, and is then as it was; and
\* when the file is absent, the next loadSchema() without forcing, with host
\* name and access token configured, issues the request as on a cold start.
C7_ClearThenColdStart ==
  [][ /\ last'.op = "clearCache"
        => /\ \A d \in Domains : memCache'[d] = NoVal
           /\ ~last'.ioFailed => file' = NoFile
           /\ last'.ioFailed => file' = file
      /\ (last.op = "clearCache" /\ file = NoFile /\ Configured
            /\ last'.op = "loadSchema" /\ last'.phase \in {"sync", "await"}
            /\ ~last'.force)
        => (last'.phase = "await" /\ last'.path = "fetch" /\ last'.fetches = 1
              /\ last'.reads = 0)
    ]_vars

\* C7 witness: clearCache() has emptied a memory cache that held a document
\* and removed a cache file that existed.
C7_Witness ==
  /\ last.op = "clearCache" /\ last.preMem # NoVal /\ last.preFile # NoFile
  /\ file = NoFile /\ Configured

\* C8 (as claimed): the getTypes() that follows a clearCache() calls
\* loadSchema() instead of answering from the schema the instance holds.
C8_LookupAfterClearLoads ==
  [][ (last.op = "clearCache" /\ last'.op = "getTypes") => last'.loads = 1 ]_vars

\* C9 (as claimed): a loadSchema() with the host name or the access token
\* missing fails with a configuration error and issues no request.
C9_MissingConfigFails ==
  (last.op = "loadSchema" /\ ~Configured)
    => /\ last.result.status = "error"
       /\ last.result.err \in {"ConfigHost", "ConfigToken"}
       /\ last.fetches = 0

\* C9 (amended): a loadSchema() with the host name or the access token missing
\* issues no request. With the host name missing it fails with a
\* configuration error and no I/O at all. With only the token missing, a call
\* without forcing that finds the document in the memory cache or in a valid
\* cache file returns it; every other call fails with a configuration error.
C9_MissingConfigNeverFetches ==
  (last.op = "loadSchema" /\ ~Configured)
    => /\ last.fetches = 0 /\ last.phase = "sync"
       /\ last.result =
            IF hostName = NoHost THEN Err("ConfigHost")
            ELSE IF ~last.force /\ last.preMem # NoVal THEN Ok(last.preMem)
            ELSE IF ~last.force /\ last.preFile \in ValidFiles
              THEN Ok(JSON_parse(last.preFile).val)
            ELSE Err("ConfigToken")
       /\ hostName = NoHost => (last.reads = 0 /\ last.unlinks = 0 /\ file = last.preFile)

\* C9 witness: a forced call failed for the missing token although the
\* memory cache held a document.
C9_Witness ==
  /\ last.op = "loadSchema" /\ last.force /\ last.preMem # NoVal
  /\ last.result = Err("ConfigToken")

\* C10: when the request fails at transport level or the response has a
\* non-success status, the call fails with the fetch error of that failure;
\* it has issued one request and issues no other (no invocation is left
\* suspended in its place), and cache file and memory cache are as before.
C10_FetchFailureIsNotRetried ==
  [][ (last'.op = "loadSchema" /\ last'.phase = "resumed"
         /\ last'.response.kind \in {"transport", "status"})
        => /\ last'.result = Err(IF last'.response.kind = "transport"
                                   THEN "FetchTransport" ELSE "FetchStatus")
           /\ last'.fetches = 1
           /\ \A k \in Calls : calls'[k] <= calls[k]
           /\ \E k \in Calls : calls'[k] < calls[k]
           /\ file' = file /\ memCache' = memCache
    ]_vars

\* C10 witness: a call has failed on a non-success status.
C10_Witness ==
  /\ LoadResumed /\ last.response.kind = "status"
  /\ last.result.status = "error"

\* The errors that reject a malformed introspection result: the one of
\* buildClientSchema and the one of lines 94-96
MalformedSchemaErrors == {"BuildSchema", "InvalidSchemaData"}

\* C11: when the network answers with a body whose data has no __schema, the
\* call fails with the error that rejects the malformed introspection result;
\* it returns no document, and instance, memory cache and cache file are as
\* before.
C11_MissingSchemaContainerFails ==
  [][ (last'.phase = "resumed" /\ last'.response.kind = "nodata")
        => /\ last'.result.status = "error"
           /\ last'.result.err \in MalformedSchemaErrors
           /\ last'.result.val = NoVal
           /\ last'.writes = 0
           /\ file' = file /\ memCache' = memCache
           /\ schema' = schema /\ rawSchema' = rawSchema
    ]_vars

\* C11 witness: a loadSchema() call has failed on a body without __schema.
C11_Witness ==
  /\ LoadResumed /\ last.response.kind = "nodata"
  /\ last.result = Err("BuildSchema")

\* The reference edit distance. Edits(s): the strings one insertion, deletion
\* or substitution of a character away from s (no longer than the strings
\* tried); EditSteps(reached, new, goal, n): the least number of edits,
\* counting from n, that leads from a string of new to a string of goal,
\* where reached holds the strings found so far and new the latest of them.
Edits(s) ==
  {SubSeq(s, 1, n - 1) \o SubSeq(s, n + 1, Len(s)) : n \in 1..Len(s)}
    \cup {[s EXCEPT ![n] = c] : n \in 1..Len(s), c \in Alphabet}
    \cup (IF Len(s) >= MaxStrLen THEN {}
          ELSE {SubSeq(s, 1, n) \o <<c>> \o SubSeq(s, n + 1, Len(s)) :
                  n \in 0..Len(s), c \in Alphabet})
RECURSIVE EditSteps(_, _, _, _)
EditSteps(reached, new, goal, n) ==
  IF new \cap goal # {} THEN n
  ELSE LET next == UNION {Edits(s) : s \in new} \ reached
       IN EditSteps(reached \cup next, next, goal, n + 1)
EditDistance(a, b) == EditSteps({a}, {a}, {b}, 0)
EditDistanceIgnoringCase(a, b) ==
  EditSteps({a}, {a}, {s \in StringsOfLen(Len(b)) : toLowerCase(s) = toLowerCase(b)}, 0)

\* A distance was computed for two of the strings tried exhaustively
DistanceTried == lookup.a \in Strings /\ lookup.b \in Strings

\* C18 (as claimed): levenshteinDistance(a, b) is the edit distance of a and
\* b with characters compared regardless of case.
C18_DistanceIgnoresCase ==
  (lookup.op = "levenshteinDistance" /\ DistanceTried)
    => lookup.result = EditDistanceIgnoringCase(lookup.a, lookup.b)

\* C18 (amended): levenshteinDistance(a, b) is the edit distance of a and b
\* with characters compared exactly; the distance checkField takes, which
\* puts both strings in lower case first, is the edit distance regardless of
\* case; kitten/sitting is 3, a/a is 0 and empty/abc is 3.
C18_DistanceIsEditDistance ==
  /\ (lookup.op = "levenshteinDistance" /\ DistanceTried)
       => lookup.result = EditDistance(lookup.a, lookup.b)
  /\ (lookup.op = "compareNames" /\ DistanceTried)
       => lookup.result = EditDistanceIgnoringCase(lookup.a, lookup.b)
  /\ (lookup.op \in {"levenshteinDistance", "compareNames"})
       => /\ (lookup.a = kitten /\ lookup.b = sitting) => lookup.result = 3
          /\ (lookup.a = <<"a">> /\ lookup.b = <<"a">>) => lookup.result = 0
          /\ (lookup.a = <<>> /\ lookup.b = <<"a", "b", "c">>) => lookup.result = 3

\* C18 witness: levenshteinDistance was called on two strings that differ in
\* the case of a letter only, and counted the difference.
C18_Witness ==
  /\ lookup.op = "levenshteinDistance"
  /\ lookup.a # lookup.b /\ toLowerCase(lookup.a) = toLowerCase(lookup.b)
  /\ Len(lookup.a) = MaxStrLen
  /\ lookup.result > 0

\* The type lookup of a lookup failed: its loadSchema() failed, or the schema
\* has no type of the name asked for
TypeLookupFailed ==
  \/ lookup.loadStatus = "error"
  \/ lookup.schema = NoDoc
  \/ getType(lookup.schema, lookup.typeName) = NoType

\* C12: fieldExists(typeName, fieldName) returns a boolean and throws nothing,
\* whatever the type name and the field name and also when the schema cannot
\* be loaded; it returns false whenever the type lookup fails.
C12_FieldExistsIsTotal ==
  lookup.op = "fieldExists"
    => /\ lookup.result.status = "ok"
       /\ lookup.result.val \in BOOLEAN
       /\ TypeLookupFailed => lookup.result.val = FALSE

\* C12 witness: fieldExists has returned false for a schema that could not be
\* loaded.
C12_Witness ==
  /\ lookup.op = "fieldExists" /\ lookup.loadStatus = "error"
  /\ lookup.loads = 1 /\ lookup.result = Returned(FALSE)

\* A lookup was answered from a loaded schema that has no type of the name
\* asked for
TypeAbsent ==
  /\ lookup.loadStatus = "ok" /\ lookup.schema # NoDoc
  /\ getType(lookup.schema, lookup.typeName) = NoType

\* C13: getTypeFields(typeName) for a name that is not in the loaded schema
\* throws the type-not-found error; its message contains the name asked for
\* and the list of the known type names, cut to SampleLimit characters; no
\* list of fields is returned, the empty one neither.
C13_AbsentTypeIsAnError ==
  (lookup.op = "getTypeFields" /\ TypeAbsent)
    => /\ lookup.result.status = "error"
       /\ lookup.result.err = "TypeNotFound"
       /\ includes(lookup.result.message, lookup.typeName)
       /\ includes(lookup.result.message,
                   substring0(join(SelectSeq(TypeKeys(lookup.schema), NotIntrospectionType), <<",", " ">>), SampleLimit))
       /\ lookup.result.val = <<>>

\* C13 witness: getTypeFields has failed for a name that the loaded document
\* does not declare.
C13_Witness ==
  /\ lookup.op = "getTypeFields" /\ lookup.typeName = T_NoSuchType
  /\ lookup.schema = "dA" /\ lookup.result.err = "TypeNotFound"

\* A lookup was answered from a loaded schema that has the type asked for
TypePresent ==
  /\ lookup.loadStatus = "ok" /\ lookup.schema # NoDoc
  /\ getType(lookup.schema, lookup.typeName) # NoType

\* C14 (as claimed): getTypeFields(typeName) for a type of the schema returns
\* without failing; it returns the empty sequence exactly when the type is
\* not field-bearing, and for a field-bearing type one descriptor per declared
\* field, with the declared names in their order.
C14_FieldsOfEveryFieldBearingType ==
  (lookup.op = "getTypeFields" /\ TypePresent)
    => LET type == getType(lookup.schema, lookup.typeName)
       IN /\ lookup.result.status = "ok"
          /\ (lookup.result.val = <<>>) <=> (type.kind \notin FieldBearingKinds)
          /\ type.kind \in FieldBearingKinds
               => /\ Len(lookup.result.val) = Len(type.fields)
                  /\ \A n \in DOMAIN type.fields :
                       lookup.result.val[n].name = type.fields[n]

\* C15 (as claimed): getTypes() returns every key of the type map, the names
\* of the introspection types included, in the order of the map.
C15_AllTypeNamesListed ==
  (lookup.op = "getTypes" /\ lookup.result.status = "ok")
    => lookup.result.val = TypeKeys(lookup.schema)

\* The position of a name in the type map of the schema a lookup was
\* answered from
KeyPosition(name) ==
  CHOOSE n \in DOMAIN TypeKeys(lookup.schema) : TypeKeys(lookup.schema)[n] = name

\* C15 (amended): getTypes() returns the keys of the type map that do not
\* start with two underscores, each once, in the order of the map and not
\* sorted; the names of the introspection types are left out.
C15_IntrospectionTypesLeftOut ==
  (lookup.op = "getTypes" /\ lookup.result.status = "ok")
    => LET keys == TypeKeys(lookup.schema)
           names == lookup.result.val
       IN /\ \A n \in DOMAIN keys :
               (\E m \in DOMAIN names : names[m] = keys[n])
                 <=> ~(keys[n][1] = "_" /\ keys[n][2] = "_")
          /\ \A m \in DOMAIN names : \E n \in DOMAIN keys : names[m] = keys[n]
          /\ \A m, n \in DOMAIN names :
               m < n => KeyPosition(names[m]) < KeyPosition(names[n])

\* C15 witness: getTypes() has answered from a document whose type map holds
\* an introspection type between two others, and has left it out.
C15_Witness ==
  /\ lookup.op = "getTypes" /\ lookup.result.status = "ok"
  /\ lookup.schema = "dA"
  /\ Len(lookup.result.val) + 1 = Len(TypeKeys("dA"))
  /\ \E n \in DOMAIN lookup.result.val :
       lookup.result.val[n] = T_Status /\ lookup.result.val[n + 1] = T_Money

\* A field check has answered, from a loaded schema that has the type asked
\* for, that the field does not exist
FieldNotFound ==
  /\ lookup.op \in {"checkField", "explore_schema"} /\ lookup.phase = "done"
  /\ TypePresent
  /\ lookup.result.status = "ok" /\ lookup.result.val # <<>>
  /\ ~lookup.result.val.exists

\* The names of the fields that the type asked for declares, and those of
\* them within MaxDistance of the name looked up, letter case disregarded
DeclaredNames ==
  LET fields == getType(lookup.schema, lookup.typeName).fields
  IN {fields[n] : n \in DOMAIN fields}
NearNames ==
  {name \in DeclaredNames :
     levenshteinDistance(toLowerCase(name), toLowerCase(lookup.fieldName)) <= MaxDistance}

\* C16 (as claimed): the suggestions for a field that does not exist are
\* names of fields of the type within distance 3 of the name looked up, in
\* ascending order of distance and at most 5; when the type has at most 5
\* such names, all of them are suggested.
C16_SuggestionsAreNearFieldNames ==
  FieldNotFound
    => LET similar == lookup.result.val.similar_fields
       IN /\ \A n \in DOMAIN similar : similar[n] \in NearNames
          /\ \A m, n \in DOMAIN similar :
               m < n => NameDistance(similar[m], lookup.fieldName)
                          <= NameDistance(similar[n], lookup.fieldName)
          /\ Len(similar) <= MaxSuggestions
          /\ Cardinality(NearNames) <= MaxSuggestions
               => \A name \in NearNames : \E n \in DOMAIN similar : similar[n] = name

\* A name is among the suggestions of a field check
Suggested(name) ==
  \/ \E n \in DOMAIN lookup.result.val.similar_fields :
       lookup.result.val.similar_fields[n] = name
  \/ lookup.op = "checkField" /\ lookup.result.val.suggestion = name

\* The name looked up holds the spelling from, and with the spelling to in
\* its place it is the name of a field the type declares
OtherSpellingDeclared(from, to) ==
  /\ includes(lookup.fieldName, from)
  /\ replace(lookup.fieldName, from, to) \in DeclaredNames

\* C17 (as claimed): when checkField finds no field of the name looked up,
\* and the name holds one spelling of a pair of the table while the name with
\* the other spelling is a field of the type, that field is suggested; so
\* cancelledAt is suggested for canceledAt on Order.
C17_OtherSpellingIsSuggested ==
  (FieldNotFound /\ lookup.op = "checkField")
    => \A n \in DOMAIN commonReplacements :
         LET us == commonReplacements[n][1]
             uk == commonReplacements[n][2]
         IN /\ OtherSpellingDeclared(us, uk) => Suggested(replace(lookup.fieldName, us, uk))
            /\ OtherSpellingDeclared(uk, us) => Suggested(replace(lookup.fieldName, uk, us))

\* C19 (as claimed): fieldExists on a type of the loaded schema tells whether
\* the type declares a field of exactly that name, letter case included: on
\* Product with the fields title and vendor it is true for title and false
\* for Title; and the suggestions of a field check for Title hold title.
C19_ExactLookupAndSuggestion ==
  /\ (lookup.op = "fieldExists" /\ TypePresent
        /\ getType(lookup.schema, lookup.typeName).kind = "OBJECT")
       => lookup.result = Returned(lookup.fieldName \in DeclaredNames)
  /\ (lookup.op = "fieldExists" /\ TypePresent /\ lookup.typeName = T_Product)
       => /\ lookup.fieldName = F_title => lookup.result.val = TRUE
          /\ lookup.fieldName = F_Title => lookup.result.val = FALSE
  /\ (FieldNotFound /\ lookup.typeName = T_Product /\ lookup.fieldName = F_Title)
       => Suggested(F_title)

\* C20: a getSchema() that follows a setSchema(doc) whose write succeeded,
\* with nothing but reads and restarts of the process in between, returns a
\* document equal to doc: from memory in the same process, and after a
\* restart from the cache file alone, where the text JSON.stringify wrote is
\* parsed back.
C20_CacheRoundTrip ==
  (lookup.op = "getSchema" /\ lookup.written # NotWritten)
    => /\ lookup.result = lookup.written
       /\ cache = lookup.written
       /\ cacheFile = JSON_stringify(lookup.written)
       /\ lookup.source \in {"memory", "file"}

\* C20 witness: after a restart, getSchema() has returned from the cache file
\* the document written before the restart.
C20_Witness ==
  /\ lookup.op = "getSchema" /\ lookup.restarted /\ lookup.source = "file"
  /\ lookup.written = SchemaVal("dB") /\ lookup.result = SchemaVal("dB")

\* ---------------------------------------------------------------------- C21
AfterClear == last.op = "clearCache"

NothingCached == memCache = ClearedMemCache /\ file = NoFile

\* C21 as stated: clearCache() with no cache file raises no error, and a
\* clearCache() that directly follows a clearCache() leaves the state the
\* first one left, which is an empty memory cache and no cache file.
C21_ClearTwiceIsClearOnce ==
  [][ last'.op = "clearCache" =>
        /\ last'.result.status = "ok"
        /\ AfterClear => (memCache' = memCache /\ file' = file /\ NothingCached') ]_vars

\* C21: clearCache() never raises; with no cache file it attempts no removal
\* and leaves the file absent; the memory cache is empty after every call;
\* and a clearCache() that directly follows one whose removal did not fail
\* changes nothing: memory cache empty and cache file absent, as before.  If
\* the removal failed the file is still there and the next call may remove it.
C21_ClearIsIdempotentUnlessRemovalFailed ==
  [][ last'.op = "clearCache" =>
        /\ last'.result.status = "ok"
        /\ memCache' = ClearedMemCache
        /\ file = NoFile => (file' = NoFile /\ last'.unlinks = 0 /\ ~last'.ioFailed)
        /\ (AfterClear /\ ~last.ioFailed) =>
             (NothingCached /\ memCache' = memCache /\ file' = file)
        /\ (AfterClear /\ last.ioFailed) => file' \in {file, NoFile} ]_vars

C21_Witness ==
  /\ AfterClear /\ last.preFile = NoFile /\ last.preMem = NoVal
  /\ last.unlinks = 0 /\ last.result.status = "ok" /\ NothingCached

\* ---------------------------------------------------------------------- C22
QueryCalled == lookup.op = "call" /\ lookup.tool = "query_shopify"

\* The query text is a GraphQL document: it has definitions and nothing else
IsDocument(query) == query # <<>> /\ \A n \in DOMAIN query : query[n] # "}"

HasMutation(query) == \E n \in DOMAIN query : query[n] = "mutation"

OnlyQueries(query) == \A n \in DOMAIN query : query[n] \in {"query", "{"}

MutationsAllowed(args) == args.allow_mutations = Given(TRUE)

\* C22: query_shopify sends a document that has a mutation operation only
\* when allow_mutations is true; when it is false or left out, such a document
\* is answered with the text "Mutations Not Allowed" and no request is made;
\* a document of query operations only is always forwarded, as it was given
\* and with the variables given.
C22_MutationsNeedAllowMutations ==
  QueryCalled =>
    LET query == lookup.args.query
    IN /\ (\E n \in DOMAIN lookup.requests : HasMutation(lookup.requests[n].document))
            => MutationsAllowed(lookup.args)
       /\ (IsDocument(query) /\ HasMutation(query) /\ ~MutationsAllowed(lookup.args))
            => /\ lookup.requests = <<>>
               /\ lookup.result = Text("# Error: Mutations Not Allowed", <<>>)
       /\ (IsDocument(query) /\ OnlyQueries(query))
            => lookup.requests = <<Request(query, lookup.args.variables)>>

C22_Witness ==
  /\ QueryCalled /\ lookup.args.query = <<"query", "mutation">>
  /\ lookup.args.allow_mutations = Absent(FALSE)
  /\ lookup.requests = <<>> /\ lookup.result.heading = "# Error: Mutations Not Allowed"

\* ---------------------------------------------------------------------- C23
BrowseCalled == lookup.op = "call" /\ lookup.tool = "browse_products"

\* A product id that names a product was passed
ProductIdProvided(args) == args.product_id.given /\ trim(args.product_id.val) # <<>>

\* The limit is within 1..50
LimitWithinRange(limit) ==
  /\ limit.whole >= 1
  /\ limit.whole < MaxLimit \/ (limit.whole = MaxLimit /\ limit.tenth = 0)

\* C23: browse_products with a product_id asks for that one product whatever
\* the limit is, and never answers "Invalid Request"; without a product_id
\* and with a limit that is not within 1..50 it answers "Invalid Request" and
\* makes no request.
C23_ProductIdOverridesLimit ==
  BrowseCalled =>
    LET args == lookup.args
    IN /\ ProductIdProvided(args) =>
            /\ lookup.requests = <<Request("GetProduct", [id |-> FullId(args.product_id.val)])>>
            /\ lookup.result.heading # "# Invalid Request"
       /\ (~args.product_id.given /\ ~LimitWithinRange(LimitOf(args.limit))) =>
            /\ lookup.requests = <<>>
            /\ lookup.result = Text("# Invalid Request", <<>>)

\* ---------------------------------------------------------------------- C24
UpdateCalled == lookup.op = "call" /\ lookup.tool = "update_variant_price"

\* The value asked for as compare-at price: none when null or the empty
\* string was given, else the value given, as a string
CompareAtPriceAsked(given) ==
  IF given \in {JSNull, JSString("")} THEN JSNull ELSE JSString(given.val)

\* C24: update_variant_price with neither new_price nor new_compare_at_price
\* answers with an error text and sends no request; otherwise it sends one
\* request whose input has price exactly when new_price was given, with the
\* value given, and compareAtPrice exactly when new_compare_at_price was
\* given: null when null or the empty string was given, else the value given.
C24_InputHasOnlyTheGivenPrices ==
  UpdateCalled =>
    LET args == lookup.args
        priceGiven == args.new_price # JSUndefined
        compareGiven == args.new_compare_at_price # JSUndefined
    IN IF ~priceGiven /\ ~compareGiven
         THEN lookup.requests = <<>> /\ lookup.result.heading = "# Error"
       ELSE /\ Len(lookup.requests) = 1
            /\ LET input == lookup.requests[1].variables.input
               IN /\ input["id"] = JSString(args.variant_id)
                  /\ ("price" \in DOMAIN input) <=> priceGiven
                  /\ priceGiven => input["price"] = args.new_price
                  /\ ("compareAtPrice" \in DOMAIN input) <=> compareGiven
                  /\ compareGiven =>
                       input["compareAtPrice"] = CompareAtPriceAsked(args.new_compare_at_price)

C24_Witness ==
  /\ UpdateCalled /\ lookup.args.new_price = JSUndefined
  /\ lookup.args.new_compare_at_price = JSString("")
  /\ Len(lookup.requests) = 1
  /\ DOMAIN lookup.requests[1].variables.input = {"id", "compareAtPrice"}
  /\ lookup.requests[1].variables.input["compareAtPrice"] = JSNull

\* ---------------------------------------------------------------------- C25
ToolCalled == lookup.op = "call"

\* The request or the schema component failed: an error was thrown, user
\* errors came back, or the data asked for is missing from the answer
RequestFailed ==
  \/ lookup.response.kind = "thrown"
  \/ lookup.tool = "update_variant_price" /\ lookup.response.heading \in {"userErrors", "noVariant"}
  \/ lookup.tool = "browse_products" /\ lookup.response.heading = "unexpected"
  \/ lookup.tool = "explore_schema" /\ lookup.args.type_name = T_NoSuchType

ErrorTexts ==
  {"# Error", "# Error Executing GraphQL Query", "# Error Executing GraphQL Request",
   "# Error Updating Variant Price", "# Error Exploring Schema", "# Product Not Found"}

LoaderStepped == last' # last

\* A non-forced load found a cache file that holds no valid document and
\* removed it (lines 67-73)
CorruptFileCleanup ==
  /\ last'.phase \in {"sync", "await"} /\ ~last'.force /\ last'.unlinks = 1
  /\ file \notin ValidFiles \cup {NoFile} /\ file' = NoFile

\* A fetch succeeded and its complete document was written (lines 98-103)
SuccessfulFetchWrote ==
  /\ last'.phase = "resumed" /\ last'.response.kind = "doc"
  /\ last'.result.status = "ok" /\ last'.writes = 1
  /\ file' = JSON_stringify(SchemaVal(last'.response.doc))

FetchFailed == last'.phase = "resumed" /\ last'.result.status = "error"

\* C26: the cache file changes only in three ways: clearCache() removes it,
\* a non-forced load removes a file that holds no valid document, or a
\* successful fetch replaces it by the complete document fetched; a fetch
\* that fails, or whose answer is malformed, leaves the file as it was.
C26_FileChangesOnlyByFetchOrRemoval ==
  [][ /\ file' # file =>
           \/ last'.op = "clearCache" /\ file' = NoFile
           \/ CorruptFileCleanup
           \/ SuccessfulFetchWrote
      /\ FetchFailed => file' = file ]_vars

C26_Witness ==
  /\ LoadResumed /\ last.force /\ last.result.status = "error"
  /\ last.response.kind \in {"transport", "nodata"}
  /\ last.preFile \in ValidFiles /\ file = last.preFile

\* ---------------------------------------------------------------------- C27
\* The index instance i holds was built from the raw document it holds
IndexMatchesDocument(i) ==
  /\ schema[i] # NoDoc => rawSchema[i] = SchemaVal(schema[i])
  /\ rawSchema[i] # NoVal => schema[i] = rawSchema[i].doc

\* A loadSchema() call has just returned a document to its caller
LoadReturned ==
  /\ last.op = "loadSchema" /\ last.phase \in {"sync", "resumed"}
  /\ last.result.status = "ok"

\* C27: in every state reached by loadSchema() and clearCache() calls on the
\* instances, an instance that holds a built index holds the raw document
\* it was built from, and when loadSchema() has just returned a document the
\* instance holds that document and the index built from it.
C27_IndexIsOfTheDocumentHeld ==
  /\ \A i \in Inst : IndexMatchesDocument(i)
  /\ LoadReturned =>
       /\ rawSchema[last.inst] = last.result.val
       /\ schema[last.inst] = last.result.val.doc

C27_Witness ==
  /\ LoadReturned /\ last.path = "memory" /\ last.inst = "other"
  /\ schema["singleton"] # NoDoc /\ schema["other"] = schema["singleton"]
  /\ rawSchema["other"] = SchemaVal(schema["other"])

\* ---------------------------------------------------------------------- C28
\* A forced loadSchema() step: the call starts, or it ends
ForcedLoadStep == last'.op = "loadSchema" /\ last'.force /\ last' # last

ForcedLoadFailed ==
  /\ last.op = "loadSchema" /\ last.force /\ last.phase \in {"sync", "resumed"}
  /\ last.result.status = "error"

LoaderStateKept ==
  /\ memCache' = memCache /\ schema' = schema /\ rawSchema' = rawSchema
  /\ file' = file

\* C28: a forced loadSchema() that fails (no answer, a status that is no
\* success, a malformed answer) changes neither the memory cache, nor the
\* document and the index of an instance, nor the cache file, at its start
\* or at its end; and when the memory cache holds a document, the
\* loadSchema() without forcing that follows it returns that document from
\* memory, without a request and without reading the file.
C28_FailedForcedLoadKeepsState ==
  [][ /\ (ForcedLoadStep /\ (last'.phase = "await" \/ last'.result.status = "error"))
           => LoaderStateKept
      /\ ( /\ ForcedLoadFailed /\ hostName # NoHost /\ memCache[hostName] # NoVal
           /\ last'.op = "loadSchema" /\ ~last'.force /\ last' # last
           /\ last'.phase \in {"sync", "await"} )
           => /\ last'.phase = "sync" /\ last'.path = "memory"
              /\ last'.result = Ok(memCache[hostName])
              /\ last'.fetches = 0 /\ last'.reads = 0
              /\ memCache' = memCache /\ file' = file ]_vars

C28_Witness ==
  /\ ForcedLoadFailed /\ last.phase = "resumed"
  /\ last.response.kind \in {"transport", "status", "nodata"}
  /\ last.preMem # NoVal /\ memCache[hostName] = last.preMem
  /\ schema[last.inst] = last.preMem.doc /\ file = last.preFile

\* ---------------------------------------------------------------------- C29
\* A call has just ended on a document of the network while another call,
\* started before that answer came, is still suspended at its request
FirstOfTwoEnded ==
  /\ last.phase = "resumed" /\ last.response.kind = "doc" /\ NumPending >= 1

\* The suspended call ends next, on a document of the network
SecondEnds ==
  /\ last'.phase = "resumed" /\ last' # last
  /\ last'.response.kind = "doc" /\ last'.writeOk

\* C29: when two loadSchema() calls are suspended at their requests together
\* and both are answered with a document, then once the second has ended the
\* memory cache and the cache file hold the same complete document, the one
\* the network answered last, and the instance holds its index.
C29_LastFetchWinsWhole ==
  [][ (FirstOfTwoEnded /\ SecondEnds) =>
        /\ memCache'[hostName] = SchemaVal(last'.response.doc)
        /\ file' = JSON_stringify(SchemaVal(last'.response.doc))
        /\ schema'[last'.inst] = last'.response.doc ]_vars

\* ---------------------------------------------------------------------- C30
\* The process has just started under a store domain, after a process under
\* another store domain whose memory cache held a document for its domain
RestartedUnderOtherDomain ==
  /\ last.op = "restart" /\ last.preHost \in Domains /\ hostName \in Domains
  /\ hostName # last.preHost /\ last.preMem # NoVal

\* The first call of the new process is a loadSchema() without forcing
UnforcedLoadNext ==
  /\ last'.op = "loadSchema" /\ ~last'.force /\ last' # last
  /\ last'.phase \in {"sync", "await"}

\* C30: a loadSchema() without forcing, under the store domain configured,
\* does not return from the memory cache or from the cache file the document
\* that was cached for another store domain, also when the process was
\* started anew in the same working directory.
C30_NoDocumentOfAnotherDomain ==
  [][ (RestartedUnderOtherDomain /\ UnforcedLoadNext) =>
        ~(last'.path \in {"memory", "file"} /\ last'.result = Ok(last.preMem)) ]_vars

====
